---- MODULE Spec2Model ----
(***************************************************************************)
(* copilot-more: the per-model sliding-window rate limiter                 *)
(* (src/copilot_more/rate_limiter.py), the usage store it queries          *)
(* (src/copilot_more/token_counter.py) and the admission sequence of the   *)
(* chat-completion handler (src/copilot_more/server.py).                   *)
(*                                                                         *)
(* Time is in whole seconds.  An Optional[int] field of a rule that is     *)
(* None is written 0: the code only ever tests these fields for            *)
(* truthiness before it reads them, and None and 0 are both falsy.         *)
(* A Python dict is a function whose DOMAIN is the set of its keys.        *)
(***************************************************************************)
EXTENDS Integers, Sequences, FiniteSets, TLC

\* ------------------------------------------------------------------ bounds
\* seconds the clock advances on one Tick
TickSeconds == 60
\* number of Ticks
MaxTicks == 3
\* rules added over all models
MaxRules == 2
\* rows appended to the usage store
MaxUsage == 1
\* requests held in the request counters
MaxRequests == 2
\* chat completions the handler records
MaxCompletions == 3
\* refresh credentials configured in settings.refresh_token
NumTokens == 3
\* ticks of the clock while the credential pool is at work or requests are
\* in flight at the same time
MaxPoolTicks == 1
\* chat completions the server handles at the same time
MaxInFlight == 2
\* pieces of the SSE text handed to the parser
MaxText == 4
\* messages of a request body
MaxMessages == 2
\* events parsed from one response
MaxEvents == 3
\* chunks of one upstream body
MaxChunks == 2
\* choices of one upstream answer to an o1 request
MaxChoices == 2

\* --------------------------------------------------------------- constants
MAX_DELAY_SECONDS == 60
\* access_token.py: a cached token is used while expires_at > now + 300
ExpiryMarginSeconds == 300

Models == {"m1", "m2"}

RateLimitRule(w, i, o, t, r, b) ==
    [window_minutes |-> w, input_tokens |-> i, output_tokens |-> o,
     total_tokens |-> t, requests |-> r, behavior |-> b]

\* the rules add_rule is called with: request rules, token rules, and both
RequestRules ==
    { RateLimitRule(1, 0, 0, 0, 2, "error"),
      RateLimitRule(2, 0, 0, 0, 1, "error"),
      RateLimitRule(1, 0, 0, 0, 2, "delay") }

TokenRules ==
    { RateLimitRule(1, 0, 1, 2, 0, "error"),
      RateLimitRule(2, 0, 0, 2, 0, "delay"),
      RateLimitRule(1, 1, 0, 4, 0, "delay") }

MixedRules ==
    { RateLimitRule(1, 0, 0, 0, 1, "error"),
      RateLimitRule(2, 0, 0, 2, 1, "delay") }

CarryRules ==
    { RateLimitRule(1, 0, 0, 0, 1, "error"),
      RateLimitRule(2, 0, 0, 2, 0, "delay"),
      RateLimitRule(1, 1, 0, 4, 0, "delay") }

\* the (input_tokens, output_tokens) pairs record_usage is called with
UsagePairs == { <<2, 0>>, <<3, 2>> }

VARIABLES
    rules,                  \* RateLimiter.rules: model -> list of rules
    request_counters,       \* RateLimiter.request_counters: model -> window -> ts -> count
    next_allowed_request,   \* RateLimiter.next_allowed_request: model -> time
    token_usage,            \* the rows of the "token_usage" item of the store
    clock,                  \* datetime.now()
    result,                 \* the call made last and what it returned
    handler,                \* proxy_chat_completions: where each request in flight is
    recorded,               \* the record_request calls the handlers made: (model,
                            \* time, calls made before the request was admitted)
    active_token_index,     \* settings.active_token_index
    CACHED_TOKENS,          \* access_token.CACHED_TOKENS: index -> token data
    TOKEN_ERRORS,           \* access_token.TOKEN_ERRORS: index -> message
    upstream,               \* what the identity endpoint answers for each credential
    pool_result,            \* the credential call made last, its outcome and its trace
    calls,                  \* the get_cached_copilot_token coroutines of the event
                            \* loop: the frames of each and what its top frame receives
    served                  \* the request or helper call of server.py made last: its
                            \* input, what it returned and what it did

vars == <<rules, request_counters, next_allowed_request, token_usage, clock,
          result, handler, recorded,
          active_token_index, CACHED_TOKENS, TOKEN_ERRORS, upstream, pool_result,
          calls, served>>

\* the state of the credential pool and of the identity endpoint
pool_vars == <<active_token_index, CACHED_TOKENS, TOKEN_ERRORS, upstream, pool_result,
               calls>>

\* the state of the server around the limiter
server_vars == <<handler, recorded>>

\* ----------------------------------------------------------------- helpers
Max(a, b) == IF a >= b THEN a ELSE b
Min(a, b) == IF a <= b THEN a ELSE b

\* timedelta(minutes=n), in seconds
Minutes(n) == n * 60

\* d[k] = v
Put(d, k, v) == [x \in (DOMAIN d) \cup {k} |-> IF x = k THEN v ELSE d[x]]

SetMax(S) == CHOOSE x \in S : \A y \in S : y <= x

RECURSIVE SumOver(_, _)
SumOver(d, S) ==
    IF S = {} THEN 0
    ELSE LET k == CHOOSE x \in S : TRUE IN d[k] + SumOver(d, S \ {k})

\* sorted(S, reverse=True)
RECURSIVE SortedReverse(_)
SortedReverse(S) ==
    IF S = {} THEN <<>>
    ELSE <<SetMax(S)>> \o SortedReverse(S \ {SetMax(S)})

Return(kind, delay) == [kind |-> kind, delay |-> delay]

\* ------------------------------------------------------------ token_counter
\* TokenUsage.query_usage: the totals of the rows of `model` with
\* start_time <= timestamp <= end_time; zeros when nothing was ever written.
RECURSIVE SumRows(_, _, _, _, _)
SumRows(rows, start_time, end_time, model, field) ==
    IF rows = <<>> THEN 0
    ELSE LET row  == Head(rows)
             mask == /\ row.timestamp >= start_time
                     /\ row.timestamp <= end_time
                     /\ row.model = model
         IN  (IF mask THEN row[field] ELSE 0)
             + SumRows(Tail(rows), start_time, end_time, model, field)

query_usage(store, start_time, end_time, model) ==
    IF store = <<>>
    THEN [total_input_tokens |-> 0, total_output_tokens |-> 0, total_tokens |-> 0]
    ELSE [total_input_tokens  |->
              SumRows(store, start_time, end_time, model, "input_tokens"),
          total_output_tokens |->
              SumRows(store, start_time, end_time, model, "output_tokens"),
          total_tokens        |->
              SumRows(store, start_time, end_time, model, "total_tokens")]

\* TokenUsage.record_usage: one row appended, stamped datetime.now()
record_usage(store, now, model, input_tokens, output_tokens) ==
    Append(store, [timestamp |-> now, model |-> model,
                   input_tokens |-> input_tokens,
                   output_tokens |-> output_tokens,
                   total_tokens |-> input_tokens + output_tokens])

\* ------------------------------------------------------------- rate_limiter
\* RateLimiter.add_rule
add_rule(rs, model, rule) ==
    IF model \notin DOMAIN rs
    THEN Put(rs, model, <<rule>>)
    ELSE Put(rs, model, Append(rs[model], rule))

\* _check_token_limits with usage equal to a limit counted as over it
_check_token_limits_at_limit(store, model, rule, start_time, end_time) ==
    LET usage == query_usage(store, start_time, end_time, model)
    IN  IF rule.input_tokens # 0 /\ usage.total_input_tokens >= rule.input_tokens
        THEN [within |-> FALSE, usage |-> usage]
        ELSE IF rule.output_tokens # 0 /\ usage.total_output_tokens >= rule.output_tokens
        THEN [within |-> FALSE, usage |-> usage]
        ELSE IF rule.total_tokens # 0 /\ usage.total_tokens >= rule.total_tokens
        THEN [within |-> FALSE, usage |-> usage]
        ELSE [within |-> TRUE, usage |-> usage]

\* RateLimiter._check_token_limits: (is_within_limits, usage)
_check_token_limits(store, model, rule, start_time, end_time) ==
    LET usage == query_usage(store, start_time, end_time, model)
    IN  IF rule.input_tokens # 0 /\ usage.total_input_tokens > rule.input_tokens
        THEN [within |-> FALSE, usage |-> usage]
        ELSE IF rule.output_tokens # 0 /\ usage.total_output_tokens > rule.output_tokens
        THEN [within |-> FALSE, usage |-> usage]
        ELSE IF rule.total_tokens # 0 /\ usage.total_tokens > rule.total_tokens
        THEN [within |-> FALSE, usage |-> usage]
        ELSE [within |-> TRUE, usage |-> usage]

\* _check_request_limits with a window that never slides: every request held
\* by the counter is counted
_check_request_limits_no_expiry(counters, model, rule, current_time) ==
    IF rule.requests = 0
    THEN [counters |-> counters, within |-> TRUE, count |-> 0]
    ELSE LET w  == rule.window_minutes
             c1 == IF model \notin DOMAIN counters
                   THEN Put(counters, model, <<>>) ELSE counters
             c2 == IF w \notin DOMAIN c1[model]
                   THEN Put(c1, model, Put(c1[model], w, <<>>)) ELSE c1
             cleanup_time == current_time - Minutes(2 * w)
             old  == c2[model][w]
             kept == [ts \in {t \in DOMAIN old : t >= cleanup_time} |-> old[ts]]
             c3   == Put(c2, model, Put(c2[model], w, kept))
             total_requests == SumOver(kept, DOMAIN kept)
         IN  [counters |-> c3,
              within   |-> total_requests < rule.requests,
              count    |-> total_requests]

\* _check_request_limits dropping every entry that has left the window
_check_request_limits_prune_window(counters, model, rule, current_time) ==
    IF rule.requests = 0
    THEN [counters |-> counters, within |-> TRUE, count |-> 0]
    ELSE LET w  == rule.window_minutes
             c1 == IF model \notin DOMAIN counters
                   THEN Put(counters, model, <<>>) ELSE counters
             c2 == IF w \notin DOMAIN c1[model]
                   THEN Put(c1, model, Put(c1[model], w, <<>>)) ELSE c1
             window_start == current_time - Minutes(w)
             old  == c2[model][w]
             kept == [ts \in {t \in DOMAIN old : t >= window_start} |-> old[ts]]
             c3   == Put(c2, model, Put(c2[model], w, kept))
             total_requests == SumOver(kept, DOMAIN kept)
         IN  [counters |-> c3,
              within   |-> total_requests < rule.requests,
              count    |-> total_requests]

\* RateLimiter._check_request_limits: (is_within_limits, current_count) and
\* the counters it leaves behind (entries created, old timestamps pruned)
_check_request_limits(counters, model, rule, current_time) ==
    IF rule.requests = 0
    THEN [counters |-> counters, within |-> TRUE, count |-> 0]
    ELSE LET w  == rule.window_minutes
             c1 == IF model \notin DOMAIN counters
                   THEN Put(counters, model, <<>>) ELSE counters
             c2 == IF w \notin DOMAIN c1[model]
                   THEN Put(c1, model, Put(c1[model], w, <<>>)) ELSE c1
             window_start == current_time - Minutes(w)
             cleanup_time == current_time - Minutes(2 * w)
             old  == c2[model][w]
             kept == [ts \in {t \in DOMAIN old : t >= cleanup_time} |-> old[ts]]
             c3   == Put(c2, model, Put(c2[model], w, kept))
             total_requests ==
                 SumOver(kept, {ts \in DOMAIN kept : ts >= window_start})
         IN  [counters |-> c3,
              within   |-> total_requests < rule.requests,
              count    |-> total_requests]

\* RateLimiter._calculate_needed_delay
_calculate_needed_delay(counters, model, rule, current_time) ==
    IF rule.requests = 0
    THEN 0
    ELSE LET w == rule.window_minutes
             window_start == current_time - Minutes(w)
             cs == IF model \in DOMAIN counters /\ w \in DOMAIN counters[model]
                   THEN counters[model][w] ELSE <<>>
             sorted_times ==
                 SortedReverse({ts \in DOMAIN cs : ts >= window_start})
         IN  IF Len(sorted_times) < rule.requests
             THEN 0
             ELSE Max(0, sorted_times[rule.requests] + Minutes(w) - current_time)

\* RateLimiter.record_request: the loop over the rules of the model, from rule i
RECURSIVE record_request_loop(_, _, _, _)
record_request_loop(model_counters, rs, i, current_time) ==
    IF i > Len(rs)
    THEN model_counters
    ELSE IF rs[i].requests = 0
    THEN record_request_loop(model_counters, rs, i + 1, current_time)
    ELSE LET w  == rs[i].window_minutes
             c1 == IF w \notin DOMAIN model_counters
                   THEN Put(model_counters, w, <<>>) ELSE model_counters
             window_counters == c1[w]
             n  == IF current_time \in DOMAIN window_counters
                   THEN window_counters[current_time] ELSE 0
         IN  record_request_loop(
                 Put(c1, w, Put(window_counters, current_time, n + 1)),
                 rs, i + 1, current_time)

record_request(counters, rs, model, current_time) ==
    LET c1 == IF model \notin DOMAIN counters
              THEN Put(counters, model, <<>>) ELSE counters
        model_rules == IF model \in DOMAIN rs THEN rs[model] ELSE <<>>
    IN  Put(c1, model, record_request_loop(c1[model], model_rules, 1, current_time))

\* RateLimiter.check_request_limit: the loop over the rules, from rule i
RECURSIVE check_request_loop(_, _, _, _, _, _)
check_request_loop(counters, rs, i, model, current_time, max_delay) ==
    IF i > Len(rs)
    THEN [counters |-> counters,
          ret |-> IF max_delay > 0 THEN Return("delay", max_delay)
                  ELSE Return("none", 0)]
    ELSE IF rs[i].requests = 0
    THEN check_request_loop(counters, rs, i + 1, model, current_time, max_delay)
    ELSE LET chk == _check_request_limits(counters, model, rs[i], current_time)
         IN  IF ~chk.within
             THEN IF rs[i].behavior = "error"
                  THEN [counters |-> chk.counters, ret |-> Return("raise", 0)]
                  ELSE LET delay == _calculate_needed_delay(
                                        chk.counters, model, rs[i], current_time)
                       IN  check_request_loop(chk.counters, rs, i + 1, model,
                                              current_time, Max(max_delay, delay))
             ELSE check_request_loop(chk.counters, rs, i + 1, model,
                                     current_time, max_delay)

\* the carry-over of check_request_limit: the wait a token violation armed
carry_over(nar, model, current_time) ==
    IF model \in DOMAIN nar /\ current_time < nar[model]
    THEN Max(0, nar[model] - current_time)
    ELSE 0

\* check_request_limit without the carry-over of next_allowed_request
check_request_limit_no_carry_over(rs, counters, nar, model, current_time) ==
    IF model \notin DOMAIN rs
    THEN [counters |-> counters, ret |-> Return("none", 0)]
    ELSE check_request_loop(counters, rs[model], 1, model, current_time, 0)

\* check_request_limit counting the request it admits
check_request_limit_reserving(rs, counters, nar, model, current_time) ==
    IF model \notin DOMAIN rs
    THEN [counters |-> counters, ret |-> Return("none", 0)]
    ELSE IF model \in DOMAIN nar /\ current_time < nar[model]
    THEN [counters |-> counters,
          ret |-> Return("delay", carry_over(nar, model, current_time))]
    ELSE LET out == check_request_loop(counters, rs[model], 1, model, current_time, 0)
         IN  IF out.ret.kind = "raise" THEN out
             ELSE [counters |-> record_request(out.counters, rs, model, current_time),
                   ret |-> out.ret]

check_request_limit(rs, counters, nar, model, current_time) ==
    IF model \notin DOMAIN rs
    THEN [counters |-> counters, ret |-> Return("none", 0)]
    ELSE IF model \in DOMAIN nar /\ current_time < nar[model]
    THEN [counters |-> counters,
          ret |-> Return("delay", carry_over(nar, model, current_time))]
    ELSE check_request_loop(counters, rs[model], 1, model, current_time, 0)

\* token_delay without the cap at MAX_DELAY_SECONDS
token_delay_uncapped(rule, usage) ==
    LET limit == IF rule.total_tokens # 0 /\ usage.total_tokens > 0
                 THEN rule.total_tokens
                 ELSE IF rule.input_tokens # 0 /\ usage.total_input_tokens > 0
                 THEN rule.input_tokens
                 ELSE IF rule.output_tokens # 0 /\ usage.total_output_tokens > 0
                 THEN rule.output_tokens
                 ELSE 1
        used  == IF rule.total_tokens # 0 /\ usage.total_tokens > 0
                 THEN usage.total_tokens
                 ELSE IF rule.input_tokens # 0 /\ usage.total_input_tokens > 0
                 THEN usage.total_input_tokens
                 ELSE IF rule.output_tokens # 0 /\ usage.total_output_tokens > 0
                 THEN usage.total_output_tokens
                 ELSE 1
        capped == Min(2 * limit, used)
    IN  (rule.window_minutes * 60 * (capped - limit)) \div limit

\* the proportional delay of check_token_limits for one violated rule
token_delay(rule, usage) ==
    LET limit == IF rule.total_tokens # 0 /\ usage.total_tokens > 0
                 THEN rule.total_tokens
                 ELSE IF rule.input_tokens # 0 /\ usage.total_input_tokens > 0
                 THEN rule.input_tokens
                 ELSE IF rule.output_tokens # 0 /\ usage.total_output_tokens > 0
                 THEN rule.output_tokens
                 ELSE 1
        used  == IF rule.total_tokens # 0 /\ usage.total_tokens > 0
                 THEN usage.total_tokens
                 ELSE IF rule.input_tokens # 0 /\ usage.total_input_tokens > 0
                 THEN usage.total_input_tokens
                 ELSE IF rule.output_tokens # 0 /\ usage.total_output_tokens > 0
                 THEN usage.total_output_tokens
                 ELSE 1
        \* usage_ratio = min(2.0, used / limit), kept as the fraction capped / limit
        capped == Min(2 * limit, used)
        \* window_minutes * 60.0 * (usage_ratio - 1.0)
        base_delay == (rule.window_minutes * 60 * (capped - limit)) \div limit
    IN  Min(base_delay, MAX_DELAY_SECONDS)

\* RateLimiter.check_token_limits: the loop over the rules, from rule i
RECURSIVE check_token_loop(_, _, _, _, _, _, _)
check_token_loop(store, nar, rs, i, model, current_time, max_delay) ==
    IF i > Len(rs)
    THEN [nar |-> nar,
          ret |-> IF max_delay > 0 THEN Return("delay", max_delay)
                  ELSE Return("none", 0)]
    ELSE LET window_start == current_time - Minutes(rs[i].window_minutes)
             chk == _check_token_limits(store, model, rs[i], window_start, current_time)
         IN  IF ~chk.within
             THEN IF rs[i].behavior = "error"
                  THEN [nar |-> nar, ret |-> Return("raise", 0)]
                  ELSE LET delay == token_delay(rs[i], chk.usage)
                           next_allowed == current_time + delay
                           nar1 == IF model \in DOMAIN nar
                                   THEN Put(nar, model, Max(nar[model], next_allowed))
                                   ELSE Put(nar, model, next_allowed)
                       IN  check_token_loop(store, nar1, rs, i + 1, model,
                                            current_time, Max(max_delay, delay))
             ELSE check_token_loop(store, nar, rs, i + 1, model, current_time, max_delay)

check_token_limits(store, rs, nar, model, current_time) ==
    IF model \notin DOMAIN rs
    THEN [nar |-> nar, ret |-> Return("none", 0)]
    ELSE check_token_loop(store, nar, rs[model], 1, model, current_time, 0)

\* ------------------------------------------------------------- access_token
\* The credential pool as the functions of access_token.py see it: the active
\* index, the two module dictionaries and, for the properties stated over one
\* call, the trace of what the call did.
Pool(active, cached, errors, trace) ==
    [active |-> active, cached |-> cached, errors |-> errors, trace |-> trace]

\* one step of a call: an exchange with the identity endpoint (ok: it answered
\* 200; has_error: TOKEN_ERRORS holds the index once the answer is handled) or
\* a write of the cache, of the errors or of the cursor (locked: TOKEN_LOCK is
\* held)
Event(ev, index, locked, ok, has_error) ==
    [ev |-> ev, index |-> index, locked |-> locked, ok |-> ok, has_error |-> has_error]

Log(st, event) == [st EXCEPT !.trace = Append(@, event)]

\* del d[k]
Remove(d, k) == [x \in (DOMAIN d) \ {k} |-> d[x]]

\* an error message: "Failed to refresh token at index i: " for every i of
\* path, then the base (the status and parsed message of a non-200 answer, the
\* text of an exception, or "All available tokens have failed")
Message(path, base) == [path |-> path, base |-> base]

NoMessage == Message(<<>>, "none")

\* f"Failed to refresh token at index {token_index}: {str(e)}"
full_error(token_index, e) == Message(<<token_index>> \o e.path, e.base)

\* the token data of a 200 answer for credential `index` at `now`; it stays
\* usable for one tick of the clock
SessionSeconds == ExpiryMarginSeconds + TickSeconds

token_data(index, now) == [source |-> index, expires_at |-> now + SessionSeconds]

NoToken == [source |-> -1, expires_at |-> 0]

Returned(st, token) == [st |-> st, ok |-> TRUE, token |-> token, err |-> NoMessage]

Raised(st, err) == [st |-> st, ok |-> FALSE, token |-> NoToken, err |-> err]

\* set_current_token_index without its range check
set_current_token_index_unchecked(st, index) ==
    Returned(Log([st EXCEPT !.active = index],
                 Event("write_cursor", index, FALSE, TRUE, FALSE)),
             NoToken)

\* set_current_token_index: the cursor moves only to an index in range
set_current_token_index(st, index) ==
    IF 0 <= index /\ index < NumTokens
    THEN Returned(Log([st EXCEPT !.active = index],
                      Event("write_cursor", index, FALSE, TRUE, FALSE)),
                  NoToken)
    ELSE Raised(st, Message(<<>>, "invalid index"))

\* cache_copilot_token: with TOKEN_LOCK held, the token is cached for `index`
\* and the error of `index` is deleted
cache_copilot_token(st, token, index) ==
    LET s1 == Log([st EXCEPT !.cached = Put(@, index, token)],
                  Event("write_cache", index, TRUE, TRUE, FALSE))
    IN  IF index \in DOMAIN s1.errors
        THEN Log([s1 EXCEPT !.errors = Remove(@, index)],
                 Event("write_errors", index, TRUE, TRUE, FALSE))
        ELSE s1

\* record_token_error
record_token_error(st, index, error_msg) ==
    Log([st EXCEPT !.errors = Put(@, index, error_msg)],
        Event("write_errors", index, FALSE, FALSE, TRUE))

\* refresh_token, lines 152-157: the answer is 200, the error recorded for the
\* index is deleted
token_refreshed_keeps_error(st, token_index) ==
    Log(st, Event("exchange", token_index, FALSE, TRUE, token_index \in DOMAIN st.errors))

token_refreshed(st, token_index) ==
    LET s1 == IF token_index \in DOMAIN st.errors
              THEN Log([st EXCEPT !.errors = Remove(@, token_index)],
                       Event("write_errors", token_index, FALSE, TRUE, FALSE))
              ELSE st
    IN  Log(s1, Event("exchange", token_index, FALSE, TRUE,
                      token_index \in DOMAIN s1.errors))

\* the exchange failed: the except branch of refresh_token records the error
\* and raises it
refresh_failed(st, token_index, e) ==
    Raised(record_token_error(st, token_index, e), e)

RECURSIVE refresh_token(_, _, _, _)
RECURSIVE try_next_loop(_, _, _, _)
RECURSIVE try_next_valid_token(_, _, _)

\* try_next_valid_token probing the next index only
try_next_valid_token_one_probe(st, up, now) ==
    IF st.active + 1 >= NumTokens
    THEN Raised(st, Message(<<>>, "exhausted"))
    ELSE LET r == refresh_token(st, up, now, st.active + 1)
         IN  IF r.ok
             THEN Returned(set_current_token_index(r.st, st.active + 1).st, NoToken)
             ELSE Raised(r.st, Message(<<>>, "exhausted"))

\* refresh_token(token_index); refresh_token() is refresh_token(active).
\* up[i] is what the endpoint does for credential i: "ok" (200), "denied" (a
\* non-200 answer) or "unreachable" (the request or the parsing of its answer
\* raises).
refresh_token(st, up, now, token_index) ==
    IF token_index < 0 \/ token_index >= NumTokens
    THEN Raised(st, Message(<<>>, "invalid index"))
    ELSE IF up[token_index] = "ok"
    THEN Returned(token_refreshed(st, token_index), token_data(token_index, now))
    ELSE LET s0 == Log(st, Event("exchange", token_index, FALSE, FALSE, TRUE))
         IN  IF up[token_index] = "unreachable"
             THEN refresh_failed(s0, token_index,
                                 Message(<<token_index>>, "unreachable"))
             ELSE LET error == Message(<<token_index>>, "denied")
                      s1 == record_token_error(s0, token_index, error)
                  IN  IF token_index = s1.active
                      THEN LET n == try_next_valid_token(s1, up, now)
                           IN  IF ~n.ok
                               THEN refresh_failed(n.st, token_index,
                                                   full_error(token_index, n.err))
                               ELSE LET r == refresh_token(n.st, up, now, n.st.active)
                                    IN  IF r.ok THEN r
                                        ELSE refresh_failed(
                                                 r.st, token_index,
                                                 full_error(token_index, r.err))
                      ELSE refresh_failed(s1, token_index,
                                          full_error(token_index, error))

\* try_next_valid_token: the loop over the indices after the active one, from i
try_next_loop(st, up, now, i) ==
    IF i >= NumTokens
    THEN Raised(st, Message(<<>>, "exhausted"))
    ELSE LET r == refresh_token(st, up, now, i)
         IN  IF r.ok
             THEN LET set == set_current_token_index(r.st, i)
                  IN  IF set.ok THEN Returned(set.st, NoToken)
                      ELSE try_next_loop(set.st, up, now, i + 1)
             ELSE try_next_loop(r.st, up, now, i + 1)

try_next_valid_token(st, up, now) == try_next_loop(st, up, now, st.active + 1)

\* get_cached_copilot_token, lines 65-76: the cached token of the index is
\* used while it expires later than the margin from now
cached_token_valid_no_margin(st, current_index, now) ==
    /\ current_index \in DOMAIN st.cached
    /\ st.cached[current_index].expires_at > now

cached_token_valid(st, current_index, now) ==
    /\ current_index \in DOMAIN st.cached
    /\ st.cached[current_index].expires_at > now + ExpiryMarginSeconds

\* get_cached_copilot_token giving up when the exchange of the active
\* credential raises
get_cached_copilot_token_no_failover(st, up, now) ==
    LET current_index == st.active
    IN  IF cached_token_valid(st, current_index, now)
        THEN Returned(st, st.cached[current_index])
        ELSE LET r == refresh_token(st, up, now, current_index)
             IN  IF r.ok
                 THEN Returned(cache_copilot_token(r.st, r.token, current_index),
                               r.token)
                 ELSE Raised(r.st, Message(<<>>, "exhausted"))

RECURSIVE get_cached_copilot_token(_, _, _)
get_cached_copilot_token(st, up, now) ==
    LET current_index == st.active
    IN  IF cached_token_valid(st, current_index, now)
        THEN Returned(st, st.cached[current_index])
        ELSE LET r == refresh_token(st, up, now, current_index)
             IN  IF r.ok
                 THEN Returned(cache_copilot_token(r.st, r.token, current_index),
                               r.token)
                 ELSE LET n == try_next_valid_token(r.st, up, now)
                      IN  IF ~n.ok THEN Raised(n.st, n.err)
                          ELSE get_cached_copilot_token(n.st, up, now)

\* Settings.validate_active_token_index
validate_active_token_index(v) == ~(v < 0 \/ v >= NumTokens)

\* ------------------------------------- access_token, coroutine by coroutine
\* The same three functions as coroutines of the event loop.  A coroutine runs
\* alone until it waits for the identity endpoint (session.get) or sleeps
\* (asyncio.sleep); only there another coroutine runs.  A call is a stack of
\* frames; `signal` is what the top frame receives: "call" when it starts,
\* "return" or "raise" from the frame it awaited.  With the stack empty the
\* signal is the outcome of the whole call.
Callers == {1, 2}

Awaiting(fn, pc, index, i) == [fn |-> fn, pc |-> pc, index |-> index, i |-> i]

\* a call: its frames, the signal, the token passed with a return, the
\* exchanges made and the exchanges that may still be counted
Coroutine(stack, signal, value, exchanges) ==
    [stack |-> stack, signal |-> signal, value |-> value, exchanges |-> exchanges]

NotCalled == Coroutine(<<>>, "idle", NoToken, 0)

\* refresh_token(): token_index is None
None == -1

\* the exchanges counted for one call: no call makes more with NumTokens
\* credentials, and the count stops one above
MaxExchanges == NumTokens * NumTokens - 1

\* a coroutine with the pool it works on
Running(co, active, cached, errors) ==
    [stack |-> co.stack, signal |-> co.signal, value |-> co.value,
     exchanges |-> co.exchanges, active |-> active, cached |-> cached,
     errors |-> errors]

Top(c) == c.stack[Len(c.stack)]

SetTop(c, frame) == [c EXCEPT !.stack[Len(c.stack)] = frame]

\* await f(...): the frame of f is pushed and starts
Await(c, frame, callee) ==
    [c EXCEPT !.stack = Append([c.stack EXCEPT ![Len(c.stack)] = frame], callee),
              !.signal = "call"]

\* return and raise: the frame ends and its caller receives the signal
Leave(c, signal, value) ==
    [c EXCEPT !.stack = SubSeq(c.stack, 1, Len(c.stack) - 1),
              !.signal = signal, !.value = value]

\* the coroutine waits: for the answer of the endpoint or for a sleep
Suspended(c) ==
    \/ c.stack = <<>>
    \/ Top(c).pc \in {"exchange", "sleep2", "sleep1"}

\* record_token_error in the coroutine
recorded_error(c, index) ==
    [c EXCEPT !.errors = Put(c.errors, index, Message(<<index>>, "failed"))]

\* get_cached_copilot_token between two waits
get_cached_copilot_token_step(c, f, now) ==
    CASE f.pc = "start" ->
             \* lines 64-76: the index is read once; a fresh cached token is returned
             IF cached_token_valid(c, c.active, now)
             THEN Leave(c, "return", c.cached[c.active])
             ELSE Await(c, Awaiting(f.fn, "refreshed", c.active, 0),
                        Awaiting("refresh_token", "start", c.active, 0))
      [] f.pc = "refreshed" ->
             \* lines 80-88: cached under the index read at the start, or failover
             IF c.signal = "return"
             THEN Leave([c EXCEPT !.cached = Put(c.cached, f.index, c.value),
                                  !.errors = Remove(c.errors, f.index)],
                        "return", c.value)
             ELSE Await(c, Awaiting(f.fn, "switched", f.index, 0),
                        Awaiting("try_next_valid_token", "start", 0, 0))
      [] f.pc = "switched" ->
             \* line 89, or the ValueError of try_next_valid_token leaves the call
             IF c.signal = "return"
             THEN Await(c, Awaiting(f.fn, "again", f.index, 0),
                        Awaiting("get_cached_copilot_token", "start", 0, 0))
             ELSE Leave(c, "raise", NoToken)
      [] OTHER -> Leave(c, c.signal, c.value)

\* refresh_token between two waits
refresh_token_step(c, f, now) ==
    CASE f.pc = "start" ->
             \* lines 132-144: the index, then the request is sent
             SetTop(c, Awaiting(f.fn, "exchange",
                             IF f.index = None THEN c.active ELSE f.index, 0))
      [] f.pc = "failover" ->
             \* lines 166-167, and the except branch of lines 170-173
             IF c.signal = "return"
             THEN Await(c, Awaiting(f.fn, "retry", f.index, 0),
                        Awaiting("refresh_token", "start", None, 0))
             ELSE Leave(recorded_error(c, f.index), "raise", NoToken)
      [] OTHER ->
             IF c.signal = "return"
             THEN Leave(c, "return", c.value)
             ELSE Leave(recorded_error(c, f.index), "raise", NoToken)

\* one more exchange counted
exchanged(c) ==
    [c EXCEPT !.exchanges = Min(c.exchanges + 1, MaxExchanges + 1)]

\* refresh_token when the endpoint has answered, lines 151-173
refresh_token_response(c, f, answer, now) ==
    CASE answer = "ok" ->
             Leave([c EXCEPT !.errors = Remove(c.errors, f.index)],
                   "return", token_data(f.index, now))
      [] answer = "denied" /\ f.index = c.active ->
             Await(recorded_error(c, f.index), Awaiting(f.fn, "failover", f.index, 0),
                   Awaiting("try_next_valid_token", "start", 0, 0))
      [] OTHER -> Leave(recorded_error(c, f.index), "raise", NoToken)

\* try_next_valid_token between two waits
try_next_valid_token_step(c, f, now) ==
    CASE f.pc = "start" ->
             \* lines 93-97: the index is read once, the loop starts after it
             SetTop(c, Awaiting(f.fn, "loop", c.active, c.active + 1))
      [] f.pc = "loop" ->
             \* lines 97-100 and 115
             IF f.i >= NumTokens
             THEN Leave(c, "raise", NoToken)
             ELSE SetTop(c, Awaiting(f.fn, "sleep2", f.index, f.i))
      [] OTHER ->
             \* lines 104-111: after refresh_token(i)
             IF c.signal = "return"
             THEN Leave([c EXCEPT !.active = f.i], "return", NoToken)
             ELSE SetTop(c, Awaiting(f.fn, "sleep1", f.index, f.i))

\* try_next_valid_token probing the same index again after a failure
try_next_valid_token_wake_same_index(c, f) ==
    IF f.pc = "sleep2"
    THEN Await(c, Awaiting(f.fn, "probed", f.index, f.i),
               Awaiting("refresh_token", "start", f.i, 0))
    ELSE SetTop(c, Awaiting(f.fn, "loop", f.index, f.i))

\* try_next_valid_token when a sleep is over: the exchange of index i after
\* the sleep of line 100, the next index after the sleep of line 111
try_next_valid_token_wake(c, f) ==
    IF f.pc = "sleep2"
    THEN Await(c, Awaiting(f.fn, "probed", f.index, f.i),
               Awaiting("refresh_token", "start", f.i, 0))
    ELSE SetTop(c, Awaiting(f.fn, "loop", f.index, f.i + 1))

\* the function of the top frame goes on
resumed(c, now) ==
    IF Top(c).fn = "get_cached_copilot_token"
    THEN get_cached_copilot_token_step(c, Top(c), now)
    ELSE IF Top(c).fn = "refresh_token"
    THEN refresh_token_step(c, Top(c), now)
    ELSE try_next_valid_token_step(c, Top(c), now)

\* the coroutine runs until it waits or ends
RECURSIVE run(_, _)
run(c, now) ==
    IF Suspended(c) THEN c
    ELSE CHOOSE end \in {run(next, now) : next \in {resumed(c, now)}} : TRUE

\* ---------------------------------------------- server.py, the o1 answer
\* The answer of the upstream to an o1 request is one JSON document,
\* [id, created, model, choices]; a key may be missing.  A choice is
\* [index, message, finish_reason], message and finish_reason optional.

\* dict.get(key, default)
get(d, key, default) == IF key \in DOMAIN d THEN d[key] ELSE default

\* lines 272-279: the choice with its message as a delta
converted_choice(choice) ==
    IF "finish_reason" \in DOMAIN choice
    THEN [index |-> choice.index, delta |-> [content |-> choice.message.content],
          finish_reason |-> choice.finish_reason]
    ELSE [index |-> choice.index, delta |-> [content |-> choice.message.content]]

\* lines 270-279: the loop over the choices keeps those with a message
RECURSIVE converted_choices(_)
converted_choices(choices) ==
    IF choices = <<>> THEN <<>>
    ELSE IF "message" \in DOMAIN Head(choices)
    THEN <<converted_choice(Head(choices))>> \o converted_choices(Tail(choices))
    ELSE converted_choices(Tail(choices))

\* {**data, "choices": converted_choices}; data has "choices" here
with_choices(data, choices) ==
    [key \in DOMAIN data |-> IF key = "choices" THEN choices ELSE data[key]]

convert_o1_response(data) ==
    IF "choices" \notin DOMAIN data THEN data
    ELSE IF data.choices = <<>> THEN data
    ELSE with_choices(data, converted_choices(data.choices))

\* json.dumps: the document of a value, one piece of text
json_dumps(value) == ToString(value)

\* lines 291-297
event_data(data, choice) ==
    [id |-> get(data, "id", ""), created |-> get(data, "created", 0),
     model |-> get(data, "model", ""), choices |-> <<choice>>]

RECURSIVE choice_events(_, _)
choice_events(data, choices) ==
    IF choices = <<>> THEN <<>>
    ELSE <<<<"data: ", json_dumps(event_data(data, Head(choices))), "\n", "\n">>>>
         \o choice_events(data, Tail(choices))

convert_to_sse_events(data) ==
    (IF "choices" \in DOMAIN data THEN choice_events(data, data.choices) ELSE <<>>)
    \o <<<<"data: ", "[DONE]", "\n", "\n">>>>

\* the choices of the answers: with a message and a finish_reason, with a
\* message only, without a message
O1Choices ==
    { [index |-> 0, message |-> [role |-> "assistant", content |-> "a"],
       finish_reason |-> "stop"],
      [index |-> 1, message |-> [role |-> "assistant", content |-> "b"]],
      [index |-> 2, finish_reason |-> "length"] }

\* the answers: without "choices", and with at most MaxChoices choices, with
\* or without an id
O1Answers ==
    { [id |-> "r1", created |-> 7, model |-> "o1"] }
    \cup { [id |-> "r1", created |-> 7, model |-> "o1", choices |-> choices] :
              choices \in UNION {[1..k -> O1Choices] : k \in 0..MaxChoices} }
    \cup { [created |-> 7, model |-> "o1", choices |-> choices] :
              choices \in UNION {[1..k -> O1Choices] : k \in 1..MaxChoices} }

\* the events that convert_to_sse_events dumps for these answers
O1Events ==
    UNION { { event_data(data, convert_o1_response(data).choices[k]) :
                k \in 1..Len(convert_o1_response(data).choices) } :
            data \in {d \in O1Answers : "choices" \in DOMAIN d} }

\* ------------------------------------------------------ server.py, the SSE text
\* A text is a sequence of pieces, each a run of characters that the parser
\* never cuts: the field prefix "data: ", a line feed, the "[DONE]" marker, a
\* JSON document, or other characters.
LF == "\n"

\* the JSON documents of the model and what json.loads makes of them: an
\* event without usage, with "usage": null, with a full usage and with a usage
\* that has no completion_tokens
Decoded ==
    ("{content}" :> [id |-> 1])
    @@ ("{usage:null}" :> [id |-> 2, usage |-> <<>>])
    @@ ("{usage:1+2}" :> [id |-> 3, usage |-> [prompt_tokens |-> 1, completion_tokens |-> 2,
                                                total_tokens |-> 3]])
    @@ ("{usage:2}" :> [id |-> 4, usage |-> [prompt_tokens |-> 2, total_tokens |-> 2]])

\* str.split("\n\n"): the parts between the successive pairs of line feeds,
\* `part` being the one under construction
RECURSIVE split(_, _)
split(text, part) ==
    IF text = <<>> THEN <<part>>
    ELSE IF Len(text) >= 2 /\ text[1] = LF /\ text[2] = LF
    THEN <<part>> \o split(SubSeq(text, 3, Len(text)), <<>>)
    ELSE split(Tail(text), Append(part, Head(text)))

\* str.strip(): the white space of a text is its line feeds
RECURSIVE strip(_)
strip(text) ==
    IF text = <<>> THEN text
    ELSE IF Head(text) = LF THEN strip(Tail(text))
    ELSE IF text[Len(text)] = LF THEN strip(SubSeq(text, 1, Len(text) - 1))
    ELSE text

\* json.loads: one document, white space around it allowed
json_loads(text) ==
    LET doc == strip(text)
    IN  IF Len(doc) = 1 /\ doc[1] \in DOMAIN Decoded
        THEN [ok |-> TRUE, value |-> Decoded[doc[1]]]
        ELSE IF Len(doc) = 1 /\ \E event \in O1Events : json_dumps(event) = doc[1]
        THEN [ok |-> TRUE,
              value |-> CHOOSE event \in O1Events : json_dumps(event) = doc[1]]
        ELSE [ok |-> FALSE, value |-> [id |-> 0]]

\* parse_accumulated_sse_data: the loop over the parts
RECURSIVE parse_parts(_)
parse_parts(parts) ==
    IF parts = <<>> THEN <<>>
    ELSE LET part == strip(Head(parts))
             rest == parse_parts(Tail(parts))
         IN  IF part # <<>> /\ Head(part) = "data: " /\ part # <<"data: ", "[DONE]">>
             THEN LET parsed_data == json_loads(Tail(part))
                  IN  IF parsed_data.ok THEN <<parsed_data.value>> \o rest
                      ELSE rest
             ELSE rest

parse_accumulated_sse_data(accumulated_text) ==
    parse_parts(split(accumulated_text, <<>>))

\* ------------------------------------------------ server.py, the usage
\* dict.get(key, 0)
Get(d, key) == IF key \in DOMAIN d THEN d[key] ELSE 0

\* extract_usage_from_response reading the usage of the first event only
extract_usage_first_only(events) ==
    LET usage == IF events # <<>> /\ "usage" \in DOMAIN Head(events)
                 THEN Head(events).usage ELSE <<>>
    IN  [prompt_tokens |-> Get(usage, "prompt_tokens"),
         completion_tokens |-> Get(usage, "completion_tokens"),
         total_tokens |-> Get(usage, "total_tokens")]

\* extract_usage_from_response: the sums of the three counts over the events
\* whose usage is there and not empty; a count that is missing is 0
RECURSIVE extract_usage_from_response(_)
extract_usage_from_response(events) ==
    IF events = <<>>
    THEN [prompt_tokens |-> 0, completion_tokens |-> 0, total_tokens |-> 0]
    ELSE LET data == Head(events)
             usage == IF "usage" \in DOMAIN data THEN data.usage ELSE <<>>
             rest == extract_usage_from_response(Tail(events))
         IN  IF DOMAIN usage # {}
             THEN [prompt_tokens |-> Get(usage, "prompt_tokens") + rest.prompt_tokens,
                   completion_tokens |-> Get(usage, "completion_tokens")
                                          + rest.completion_tokens,
                   total_tokens |-> Get(usage, "total_tokens") + rest.total_tokens]
             ELSE rest

\* TokenUsage.record_usage_from_response; a failure of the store is caught and
\* logged by record_usage, and no row is written
record_usage_from_response(store, now, model, usage_data, store_ok) ==
    IF store_ok
    THEN record_usage(store, now, model, Get(usage_data, "prompt_tokens"),
                      Get(usage_data, "completion_tokens"))
    ELSE store

\* process_usage_and_show_statistics: the store after the call.  usage_data
\* is a dict of three keys, which is true whatever the counts are.
process_usage_and_show_statistics(store, now, model, parsed_events, store_ok) ==
    IF parsed_events = <<>> THEN store
    ELSE LET usage_data == extract_usage_from_response(parsed_events)
         IN  IF DOMAIN usage_data # {}
             THEN record_usage_from_response(store, now, model, usage_data, store_ok)
             ELSE store

\* ------------------------------------------- server.py, the request body
\* A request body is [model, messages]; a model name is a sequence of pieces
\* of characters; a message is [role, content], its content a string
\* ([kind |-> "str", text]), an array of items ([kind |-> "list", items], an
\* item being [type, text]) or absent ([kind |-> "missing"]).

\* str.startswith
startswith(name, prefix) ==
    /\ Len(name) >= Len(prefix)
    /\ SubSeq(name, 1, Len(prefix)) = prefix

\* the model test of preprocess_request_body with == in place of startswith
is_o1_exact(model) == model = <<"o", "1">>

\* model and model.startswith("o1")
is_o1(model) == model # <<>> /\ startswith(model, <<"o", "1">>)

\* StringSanitizer.sanitize(text).text: the sanitizer is outside the
\* repository's src/; whatever it returns is a text
sanitize(text) == <<"sanitized", text>>

HTTPException(status_code, detail) ==
    [ok |-> FALSE, status_code |-> status_code, detail |-> detail]

\* content_items keeping the first item of the array only
content_items_first_only(role, items) ==
    IF items = <<>> THEN [ok |-> TRUE, messages |-> <<>>]
    ELSE IF \E i \in 1..Len(items) : items[i].type # "text"
    THEN HTTPException(400, "Only text type is supported in content array")
    ELSE [ok |-> TRUE,
          messages |-> <<[role |-> role,
                          content |-> [kind |-> "str",
                                       text |-> sanitize(Head(items).text)]]>>]

\* the messages made of the items of one content array, lines 238-249
RECURSIVE content_items(_, _)
content_items(role, items) ==
    IF items = <<>> THEN [ok |-> TRUE, messages |-> <<>>]
    ELSE IF Head(items).type # "text"
    THEN HTTPException(400, "Only text type is supported in content array")
    ELSE LET rest == content_items(role, Tail(items))
         IN  IF ~rest.ok THEN rest
             ELSE [ok |-> TRUE,
                   messages |-> <<[role |-> role,
                                   content |-> [kind |-> "str",
                                                text |-> sanitize(Head(items).text)]]>>
                                \o rest.messages]

\* the loop over request_body["messages"], lines 226-249; a message without
\* content raises KeyError, which proxy_chat_completions answers with 400
RECURSIVE processed_messages(_)
processed_messages(messages) ==
    IF messages = <<>> THEN [ok |-> TRUE, messages |-> <<>>]
    ELSE LET message == Head(messages)
             rest == processed_messages(Tail(messages))
             here == CASE message.content.kind = "missing" ->
                              HTTPException(400, "Error preprocessing request")
                       [] message.content.kind = "str" ->
                              [ok |-> TRUE,
                               messages |-> <<[message EXCEPT !.content.text =
                                                   sanitize(@)]>>]
                       [] OTHER -> content_items(message.role, message.content.items)
         IN  IF ~here.ok THEN here
             ELSE IF ~rest.ok THEN rest
             ELSE [ok |-> TRUE, messages |-> here.messages \o rest.messages]

\* lines 251-256: o1 models take no system message
o1_roles(model, messages) ==
    [i \in 1..Len(messages) |->
        IF is_o1(model) /\ messages[i].role = "system"
        THEN [messages[i] EXCEPT !.role = "user"]
        ELSE messages[i]]

\* preprocess_request_body as proxy_chat_completions calls it: the body to
\* send, or the HTTPException 400
preprocess_request_body(request_body) ==
    IF request_body.messages = <<>>
    THEN [ok |-> TRUE, body |-> request_body]
    ELSE LET processed == processed_messages(request_body.messages)
         IN  IF ~processed.ok THEN processed
             ELSE [ok |-> TRUE,
                   body |-> [request_body EXCEPT
                                !.messages = o1_roles(request_body.model,
                                                      processed.messages)]]

\* --------------------------------------- server.py, one request as a whole
\* One chat completion from the request to the end of its response, with
\* nothing else running in between.  The state it works on is a record
\* w = [counters, nar, store, pool, now, recorded, trace, is_streaming]; the
\* trace lists what the request did, in order, and is_streaming is
\* request_body.get("stream", False).  What the world outside does during the
\* request is a record net:
\*   up        what the identity endpoint answers for each credential
\*   status    the status of the upstream response
\*   chunks    the chunks of the upstream body, each a sequence of pieces
\*   cancel    when the client cancels: "never", "request_sleep" (during the
\*             sleep of the admission delay) or "body" (while the body is
\*             streamed, after net.received chunks)
\*   again     whether a cancellation that was swallowed is delivered again
\*             at the next await (a cancel scope) or not (a task cancelled once)
\*   store_ok  whether the usage store works
\*   str_detail whether str() of an HTTPException holds its detail, which
\*             depends on the version of the framework
Seen(w, ev) == [w EXCEPT !.trace = Append(@, ev)]

Slept(w, delay) == [Seen(w, "sleep") EXCEPT !.now = @ + delay]

\* the response the client gets; status_code 0: the request was torn down
\* without a response
Response(w, status_code, body) == [w |-> w, status_code |-> status_code, body |-> body]

\* the text the upstream sends with an error status
UpstreamErrorText == "upstream error text"

\* json.dumps({"error": str(e)}), line 466
error_chunk(text) == <<"{error: ", text, "}">>

\* the concatenation of chunks
RECURSIVE Joined(_)
Joined(chunks) == IF chunks = <<>> THEN <<>> ELSE Head(chunks) \o Joined(Tail(chunks))

\* Each step below takes what the step before it computed as a parameter.

\* lines 448-451: the text is parsed and the usage of its events recorded
usage_recorded(w, model, parsed_events, store_ok) ==
    [Seen(Seen(w, "parse"), "process_usage") EXCEPT !.store =
        process_usage_and_show_statistics(w.store, w.now, model, parsed_events, store_ok)]

\* lines 458-462: out is what check_token_limits answered at current_time =
\* w.now; a RateLimitError leaves the block, a delay is slept, and the request
\* is recorded with current_time
token_checked(w, rs, model, out) ==
    IF out.ret.kind = "raise"
    THEN [w |-> [Seen(w, "check_token_limits") EXCEPT !.nar = out.nar], ok |-> FALSE]
    ELSE [w |-> [Seen(IF out.ret.kind = "delay" /\ out.ret.delay > 0
                      THEN Slept(Seen(w, "check_token_limits"), out.ret.delay)
                      ELSE Seen(w, "check_token_limits"),
                      "record_request")
                 EXCEPT !.nar = out.nar,
                        !.counters = record_request(w.counters, rs, model, w.now),
                        !.recorded = Append(@, <<model, w.now, Len(@)>>)],
          ok |-> TRUE]

\* lines 452-457
usage_checked(w, rs, model) ==
    token_checked(w, rs, model, check_token_limits(w.store, rs, w.nar, model, w.now))

\* stream_response after the last chunk, lines 448-462: parse, usage, token
\* check, the sleep of a token delay, record_request
after_body(w, rs, model, all_text_chunks, net) ==
    usage_checked(usage_recorded(w, model, parse_accumulated_sse_data(all_text_chunks),
                                 net.store_ok),
                  rs, model)

\* lines 464-466 after the body: the exception of the token check is yielded
\* as one more chunk
delivered(after, net) ==
    [w |-> after.w,
     body |-> IF after.ok THEN Joined(net.chunks)
              ELSE Joined(net.chunks) \o error_chunk("rate limit")]

\* lines 412-466: the response of the upstream.  An upstream error is raised,
\* caught and yielded as a chunk; a cancellation is not an Exception and ends
\* the generator at the yield.
streamed(w, rs, model, net) ==
    IF net.cancel = "body"
    THEN [w |-> Seen(w, "cancelled"), body |-> Joined(SubSeq(net.chunks, 1, net.received))]
    ELSE delivered(after_body(w, rs, model, Joined(net.chunks), net), net)

\* lines 422-434: for an o1 model asked with stream, the chunks yielded are
\* the events made of the document net.data of the answer; otherwise they
\* are the chunks of the answer
posted(w, rs, model, net) ==
    IF net.status # 200
    THEN [w |-> w, body |-> error_chunk(IF net.str_detail THEN UpstreamErrorText ELSE "")]
    ELSE IF startswith(model, <<"o", "1">>) /\ w.is_streaming
    THEN streamed(w, rs, model,
                  [net EXCEPT !.chunks = convert_to_sse_events(convert_o1_response(net.data))])
    ELSE streamed(w, rs, model, net)

\* lines 387-411: tok is what get_cached_copilot_token answered
with_token(w, rs, model, net, tok) ==
    IF ~tok.ok
    THEN [w |-> [Seen(w, "get_cached_copilot_token") EXCEPT !.pool = tok.st],
          body |-> error_chunk("token error")]
    ELSE posted([Seen(Seen(w, "get_cached_copilot_token"), "post") EXCEPT !.pool = tok.st],
                rs, model, net)

\* the generator stream_response, lines 385-466: what it yields
stream_response_chunks(w, rs, model, net) ==
    with_token(w, rs, model, net, get_cached_copilot_token(w.pool, net.up, w.now))

\* lines 468-471
StreamingResponse(stream) == Response(stream.w, 200, stream.body)

\* the response is streamed whatever the admission check answered, which is
\* looked at afterwards
admitted_after_streaming(w, rs, model, out, net) ==
    IF out.ret.kind = "raise"
    THEN Response(stream_response_chunks(w, rs, model, net).w, 429, <<"rate limit">>)
    ELSE StreamingResponse(stream_response_chunks(w, rs, model, net))

\* lines 380-471: out is what check_request_limit answered.  A RateLimitError
\* is a 429; a delay is slept, and a cancellation of the sleep is swallowed
\* (lines 315-317): the handler goes on, unless the cancellation is delivered
\* again and tears the request down
admitted(w, rs, model, out, net) ==
    LET w2 == [Seen(w, "check_request_limit") EXCEPT !.counters = out.counters]
        sleeps == out.ret.kind = "delay" /\ out.ret.delay > 0
    IN  IF out.ret.kind = "raise" THEN Response(w2, 429, <<"rate limit">>)
        ELSE IF ~sleeps THEN StreamingResponse(stream_response_chunks(w2, rs, model, net))
        ELSE IF net.cancel # "request_sleep"
        THEN StreamingResponse(stream_response_chunks(Slept(w2, out.ret.delay),
                                                      rs, model, net))
        ELSE IF net.again THEN Response(Seen(Seen(w2, "sleep"), "cancelled"), 0, <<>>)
        ELSE StreamingResponse(stream_response_chunks(Seen(Seen(w2, "sleep"), "cancelled"),
                                                      rs, model, net))

\* lines 362-379: pre is what preprocess_request_body answered
normalized(w, rs, model, pre, net) ==
    IF ~pre.ok
    THEN Response(Seen(w, "preprocess_request_body"), pre.status_code, <<pre.detail>>)
    ELSE admitted(Seen(w, "preprocess_request_body"), rs, model,
                  check_request_limit(rs, w.counters, w.nar, model, w.now), net)

\* proxy_chat_completions, lines 354-471, called after the startup (the rate
\* limiter is there)
chat_completions(w, rs, request_body, net) ==
    normalized([w EXCEPT !.is_streaming = get(request_body, "stream", FALSE)],
               rs, request_body.model, preprocess_request_body(request_body), net)

\* lines 330-351 of list_models: the HTTPException raised for an upstream
\* status other than 200 is an Exception and leaves as a 500
models_with_token(w, net, tok) ==
    IF ~tok.ok
    THEN Response([Seen(w, "get_cached_copilot_token") EXCEPT !.pool = tok.st],
                  500, <<"Error fetching models: ", "token error">>)
    ELSE IF net.status # 200
    THEN Response([Seen(Seen(w, "get_cached_copilot_token"), "get") EXCEPT !.pool = tok.st],
                  500, <<"Error fetching models: ",
                         IF net.str_detail THEN UpstreamErrorText ELSE "">>)
    ELSE Response([Seen(Seen(w, "get_cached_copilot_token"), "get") EXCEPT !.pool = tok.st],
                  200, <<"models">>)

\* list_models, lines 323-351
list_models(w, net) ==
    models_with_token(w, net, get_cached_copilot_token(w.pool, net.up, w.now))

\* ------------------------------------------------------------------ actions
Call(op, model, ret) == [op |-> op, model |-> model, kind |-> ret.kind, delay |-> ret.delay]

NoReturn == Return("none", 0)

RECURSIVE TotalRules(_)
TotalRules(S) ==
    IF S = {} THEN 0
    ELSE LET m == CHOOSE x \in S : TRUE IN Len(rules[m]) + TotalRules(S \ {m})

RECURSIVE CountAll(_, _)
CountAll(counters, S) ==
    IF S = {} THEN 0
    ELSE LET p == CHOOSE x \in S : TRUE
         IN  SumOver(counters[p[1]][p[2]], DOMAIN counters[p[1]][p[2]])
             + CountAll(counters, S \ {p})

TotalRequests ==
    CountAll(request_counters,
             {p \in Models \X {1, 2} :
                 /\ p[1] \in DOMAIN request_counters
                 /\ p[2] \in DOMAIN request_counters[p[1]]})

\* the coroutines of proxy_chat_completions the event loop runs
Requests == 1..MaxInFlight

\* pc: startup (lifespan), idle, request_sleep and token_sleep (inside
\* execute_rate_limit_sleep), streaming (inside stream_response);
\* records_before: the record_request calls made when the request was admitted
Handler(pc, model, wake, current_time, records_before) ==
    [pc |-> pc, model |-> model, wake |-> wake, current_time |-> current_time,
     records_before |-> records_before]

\* no request in the coroutine: the locals of the one it served are gone
Idle == Handler("idle", "m1", 0, 0, 0)

\* the credential pool of the current state, with an empty trace
ThePool == Pool(active_token_index, CACHED_TOKENS, TOKEN_ERRORS, <<>>)

\* the credential call made last: the function, the active index it started
\* from (for set_current_token_index and the settings, the index asked for),
\* its outcome and what it did
PoolCall(op, index, out) ==
    [op |-> op, index |-> index, ok |-> out.ok, token |-> out.token,
     err |-> out.err, trace |-> out.st.trace]

Init ==
    /\ rules = <<>>
    /\ request_counters = <<>>
    /\ next_allowed_request = <<>>
    /\ token_usage = <<>>
    /\ clock = 0
    /\ result = Call("init", "m1", NoReturn)
    /\ handler = [q \in Requests |-> Handler("startup", "m1", 0, 0, 0)]
    /\ recorded = <<>>
    /\ active_token_index = 0
    /\ CACHED_TOKENS = <<>>
    /\ TOKEN_ERRORS = <<>>
    /\ upstream = [i \in 0..(NumTokens - 1) |-> "ok"]
    /\ served = [op |-> "init"]
    /\ pool_result = PoolCall("init", 0, Returned(ThePool, NoToken))
    /\ calls = [t \in Callers |-> NotCalled]

AddRule(M, R) ==
    \E m \in M, r \in R :
        /\ TotalRules(DOMAIN rules) < MaxRules
        /\ rules' = add_rule(rules, m, r)
        /\ result' = Call("add_rule", m, NoReturn)
        /\ UNCHANGED <<request_counters, next_allowed_request, token_usage, clock, server_vars,
                       pool_vars, served>>

CheckRequest(M) ==
    \E m \in M :
        LET out == check_request_limit(rules, request_counters,
                                       next_allowed_request, m, clock)
        IN  /\ request_counters' = out.counters
            /\ result' = Call("check_request", m, out.ret)
            /\ UNCHANGED <<rules, next_allowed_request, token_usage, clock, server_vars,
                       pool_vars, served>>

RecordRequest(M) ==
    \E m \in M :
        /\ TotalRequests < MaxRequests
        /\ request_counters' = record_request(request_counters, rules, m, clock)
        /\ result' = Call("record_request", m, NoReturn)
        /\ UNCHANGED <<rules, next_allowed_request, token_usage, clock, server_vars,
                       pool_vars, served>>

CheckTokens(M) ==
    \E m \in M :
        LET out == check_token_limits(token_usage, rules, next_allowed_request, m, clock)
        IN  /\ next_allowed_request' = out.nar
            /\ result' = Call("check_tokens", m, out.ret)
            /\ UNCHANGED <<rules, request_counters, token_usage, clock, server_vars,
                       pool_vars, served>>

RecordUsage(M, U) ==
    \E m \in M, u \in U :
        /\ Len(token_usage) < MaxUsage
        /\ token_usage' = record_usage(token_usage, clock, m, u[1], u[2])
        /\ result' = Call("record_usage", m, NoReturn)
        /\ UNCHANGED <<rules, request_counters, next_allowed_request, clock, server_vars,
                       pool_vars, served>>

Tick ==
    /\ clock < MaxTicks * TickSeconds
    /\ clock' = clock + TickSeconds
    /\ result' = Call("tick", "m1", NoReturn)
    /\ UNCHANGED <<rules, request_counters, next_allowed_request, token_usage, server_vars,
                       pool_vars, served>>

\* the request side of the limiter, on every model
ReqAddRule == AddRule(Models, RequestRules)
ReqCheckRequest == CheckRequest(Models)
ReqRecordRequest == RecordRequest(Models)

NextRequests ==
    \/ ReqAddRule
    \/ ReqCheckRequest
    \/ ReqRecordRequest
    \/ Tick

SpecRequests == Init /\ [][NextRequests]_vars

\* the token side of the limiter: rules on one model, usage of every model
TokAddRule == AddRule({"m1"}, TokenRules)
TokRecordUsage == RecordUsage(Models, UsagePairs)
TokCheckTokens == CheckTokens(Models)

NextTokens ==
    \/ TokAddRule
    \/ TokRecordUsage
    \/ TokCheckTokens
    \/ Tick

SpecTokens == Init /\ [][NextTokens]_vars

\* every call of the limiter, on one model, with token rules of different
\* delays and a request rule
CarryAddRule == AddRule({"m1"}, CarryRules)
CarryRecordUsage == RecordUsage({"m1"}, {<<3, 2>>})
CarryCheckTokens == CheckTokens({"m1"})
CarryCheckRequest == CheckRequest({"m1"})
CarryRecordRequest == RecordRequest({"m1"})

NextCarryOver ==
    \/ CarryAddRule
    \/ CarryRecordUsage
    \/ CarryCheckTokens
    \/ CarryCheckRequest
    \/ CarryRecordRequest
    \/ Tick

SpecCarryOver == Init /\ [][NextCarryOver]_vars

\* every call of the limiter, on one model, with rules that limit both
\* requests and tokens
OneModel == {"m1"}
LimAddRule == AddRule(OneModel, MixedRules)
LimCheckRequest == CheckRequest(OneModel)
LimRecordRequest == RecordRequest(OneModel)
LimRecordUsage == RecordUsage(OneModel, {<<3, 2>>})
LimCheckTokens == CheckTokens(OneModel)

Next ==
    \/ LimAddRule
    \/ LimCheckRequest
    \/ LimRecordRequest
    \/ LimRecordUsage
    \/ LimCheckTokens
    \/ Tick

Spec == Init /\ [][Next]_vars

\* ------------------------------------------------------------- server.py
\* startup, then for every request of Q admission, upstream call and
\* accounting; the requests of Q interleave where the code awaits

\* lifespan: one add_rule for every limit of settings.rate_limits
lifespan(M, R) ==
    \E m \in M, r \in R :
        /\ \A q \in Requests : handler[q].pc = "startup"
        /\ TotalRules(DOMAIN rules) < MaxRules
        /\ rules' = add_rule(rules, m, r)
        /\ result' = Call("lifespan", m, NoReturn)
        /\ UNCHANGED <<request_counters, next_allowed_request, token_usage, clock,
                       server_vars, pool_vars, served>>

\* lifespan yields: the application starts to serve
lifespan_yield ==
    /\ \A q \in Requests : handler[q].pc = "startup"
    /\ handler' = [q \in Requests |-> Idle]
    /\ result' = Call("lifespan_yield", "m1", NoReturn)
    /\ UNCHANGED <<rules, request_counters, next_allowed_request, token_usage, clock,
                   recorded, pool_vars, served>>

\* proxy_chat_completions up to the streaming response: the admission check;
\* a RateLimitError is answered with 429, a delay is slept
proxy_chat_completions(Q, M) ==
    \E q \in Q, m \in M :
        LET out == check_request_limit(rules, request_counters,
                                       next_allowed_request, m, clock)
            n == Len(recorded)
        IN  /\ handler[q].pc = "idle"
            /\ Len(recorded) < MaxCompletions
            /\ request_counters' = out.counters
            /\ result' = Call("proxy_chat_completions", m, out.ret)
            /\ handler' = [handler EXCEPT ![q] =
                   CASE out.ret.kind = "raise" -> Idle
                     [] out.ret.kind = "delay" /\ out.ret.delay > 0 ->
                            Handler("request_sleep", m, clock + out.ret.delay, clock, n)
                     [] OTHER -> Handler("streaming", m, 0, clock, n)]
            /\ UNCHANGED <<rules, next_allowed_request, token_usage, clock, recorded,
                           pool_vars, served>>

\* execute_rate_limit_sleep returns once the delay has passed
execute_rate_limit_sleep(Q) ==
    \E q \in Q :
        /\ handler[q].pc = "request_sleep"
        /\ clock >= handler[q].wake
        /\ handler' = [handler EXCEPT ![q] =
               Handler("streaming", handler[q].model, 0, handler[q].current_time,
                       handler[q].records_before)]
        /\ result' = Call("execute_rate_limit_sleep", handler[q].model, NoReturn)
        /\ UNCHANGED <<rules, request_counters, next_allowed_request, token_usage,
                       clock, recorded, pool_vars, served>>

\* stream_response fails before the accounting: nothing is recorded
stream_response_error(Q) ==
    \E q \in Q :
        /\ handler[q].pc = "streaming"
        /\ handler' = [handler EXCEPT ![q] = Idle]
        /\ result' = Call("stream_response", handler[q].model, Return("error", 0))
        /\ UNCHANGED <<rules, request_counters, next_allowed_request, token_usage,
                       clock, recorded, pool_vars, served>>

\* what the events parsed from an answer may carry: no usage, or one of U
ParsedEvents(U) == {<<FALSE, <<0, 0>>>>} \cup {<<TRUE, u>> : u \in U}

\* stream_response after the last chunk: the usage of the parsed events is
\* recorded (no event, no row), the token limits are checked, a token delay
\* is slept and the request is recorded with the time of the token check
stream_response(Q, U) ==
    \E q \in Q, parsed \in ParsedEvents(U) :
        LET m == handler[q].model
            n == handler[q].records_before
            events == parsed[1]
            u == parsed[2]
            store == IF events THEN record_usage(token_usage, clock, m, u[1], u[2])
                     ELSE token_usage
            out == check_token_limits(store, rules, next_allowed_request, m, clock)
        IN  /\ handler[q].pc = "streaming"
            /\ events => Len(token_usage) < MaxUsage
            /\ token_usage' = store
            /\ next_allowed_request' = out.nar
            /\ result' = Call("stream_response", m, out.ret)
            /\ CASE out.ret.kind = "raise" ->
                        /\ handler' = [handler EXCEPT ![q] = Idle]
                        /\ UNCHANGED <<request_counters, recorded>>
                 [] out.ret.kind = "delay" /\ out.ret.delay > 0 ->
                        /\ handler' = [handler EXCEPT ![q] =
                               Handler("token_sleep", m, clock + out.ret.delay, clock, n)]
                        /\ UNCHANGED <<request_counters, recorded>>
                 [] OTHER ->
                        /\ handler' = [handler EXCEPT ![q] = Idle]
                        /\ request_counters' = record_request(request_counters, rules, m, clock)
                        /\ recorded' = Append(recorded, <<m, clock, n>>)
            /\ UNCHANGED <<rules, clock, pool_vars, served>>

\* stream_response after the token delay: record_request with the time read
\* before the sleep
stream_response_record(Q) ==
    \E q \in Q :
        /\ handler[q].pc = "token_sleep"
        /\ clock >= handler[q].wake
        /\ request_counters' = record_request(request_counters, rules, handler[q].model,
                                              handler[q].current_time)
        /\ recorded' = Append(recorded, <<handler[q].model, handler[q].current_time,
                                          handler[q].records_before>>)
        /\ handler' = [handler EXCEPT ![q] = Idle]
        /\ result' = Call("record_request", handler[q].model, NoReturn)
        /\ UNCHANGED <<rules, next_allowed_request, token_usage, clock, pool_vars, served>>

\* one request at a time
ServerRules ==
    { RateLimitRule(1, 0, 0, 0, 2, "error"),
      RateLimitRule(2, 0, 0, 0, 1, "error"),
      RateLimitRule(1, 0, 0, 0, 2, "delay"),
      RateLimitRule(2, 0, 0, 2, 1, "delay") }

SrvLifespan == lifespan({"m1"}, ServerRules)
SrvProxyChatCompletions == proxy_chat_completions({1}, {"m1"})
SrvExecuteRateLimitSleep == execute_rate_limit_sleep({1})
SrvStreamResponseError == stream_response_error({1})
SrvStreamResponse == stream_response({1}, {<<3, 2>>, <<0, 0>>})
SrvStreamResponseRecord == stream_response_record({1})

NextServer ==
    \/ SrvLifespan
    \/ lifespan_yield
    \/ SrvProxyChatCompletions
    \/ SrvExecuteRateLimitSleep
    \/ SrvStreamResponseError
    \/ SrvStreamResponse
    \/ SrvStreamResponseRecord
    \/ Tick

SpecServer == Init /\ [][NextServer]_vars

\* time passes while requests are in flight
ConTick ==
    /\ clock < MaxPoolTicks * TickSeconds
    /\ clock' = clock + TickSeconds
    /\ result' = Call("tick", "m1", NoReturn)
    /\ UNCHANGED <<rules, request_counters, next_allowed_request, token_usage,
                   server_vars, pool_vars, served>>

\* requests in flight at the same time under limits on the requests only: no
\* limit on tokens and no usage in the answers, so no token delay is slept
\* before record_request
ConcurrentRules ==
    { RateLimitRule(1, 0, 0, 0, 1, "error"),
      RateLimitRule(1, 0, 0, 0, 1, "delay") }

ConLifespan == lifespan({"m1"}, ConcurrentRules)
ConProxyChatCompletions == proxy_chat_completions(Requests, {"m1"})
ConExecuteRateLimitSleep == execute_rate_limit_sleep(Requests)
ConStreamResponseError == stream_response_error(Requests)
ConStreamResponse == stream_response(Requests, {})

NextConcurrent ==
    \/ ConLifespan
    \/ lifespan_yield
    \/ ConProxyChatCompletions
    \/ ConExecuteRateLimitSleep
    \/ ConStreamResponseError
    \/ ConStreamResponse
    \/ ConTick

SpecConcurrent == Init /\ [][NextConcurrent]_vars

\* ---------------------------------------------- the credential pool at work
\* the process runs unless the settings were rejected when it started
Serving == pool_result.op # "settings_rejected"

Installed(out) ==
    /\ active_token_index' = out.st.active
    /\ CACHED_TOKENS' = out.st.cached
    /\ TOKEN_ERRORS' = out.st.errors

limiter_vars == <<rules, request_counters, next_allowed_request, token_usage, result>>

\* Settings(): ACTIVE_TOKEN_INDEX is validated when the process starts
LoadSettings(V) ==
    \E v \in V :
        /\ pool_result.op = "init"
        /\ IF validate_active_token_index(v)
           THEN /\ active_token_index' = v
                /\ pool_result' = PoolCall("settings", v, Returned(ThePool, NoToken))
           ELSE /\ active_token_index' = active_token_index
                /\ pool_result' = PoolCall("settings_rejected", v,
                                           Raised(ThePool, Message(<<>>, "invalid index")))
        /\ UNCHANGED <<CACHED_TOKENS, TOKEN_ERRORS, upstream, clock, limiter_vars,
                       server_vars, served, calls>>

\* set_current_token_index called with any index
SetCurrentTokenIndex(V) ==
    \E v \in V :
        LET out == set_current_token_index(ThePool, v)
        IN  /\ Serving
            /\ Installed(out)
            /\ pool_result' = PoolCall("set_current_token_index", v, out)
            /\ UNCHANGED <<upstream, clock, limiter_vars, server_vars, served, calls>>

\* what the identity endpoint may answer for the credentials during one call
Answers(S) == [0..(NumTokens - 1) -> S]

\* initialize_settings, in lifespan before the application serves:
\* refresh_token() of the active credential
InitializeSettings(U) ==
    \E up \in U :
        LET out == refresh_token(ThePool, up, clock, active_token_index)
        IN  /\ pool_result.op \in {"init", "settings"}
            /\ Installed(out)
            /\ upstream' = up
            /\ pool_result' = PoolCall("refresh_token", active_token_index, out)
            /\ UNCHANGED <<clock, limiter_vars, server_vars, served, calls>>

\* get_cached_copilot_token, as stream_response and list_models call it
GetCachedCopilotToken(U) ==
    \E up \in U :
        LET out == get_cached_copilot_token(ThePool, up, clock)
        IN  /\ Serving
            /\ Installed(out)
            /\ upstream' = up
            /\ pool_result' = PoolCall("get_cached_copilot_token", active_token_index, out)
            /\ UNCHANGED <<clock, limiter_vars, server_vars, served, calls>>

\* time passes for the credential pool
PoolTick ==
    /\ Serving
    /\ clock < MaxPoolTicks * TickSeconds
    /\ clock' = clock + TickSeconds
    /\ pool_result' = PoolCall("tick", active_token_index, Returned(ThePool, NoToken))
    /\ UNCHANGED <<active_token_index, CACHED_TOKENS, TOKEN_ERRORS, upstream,
                   limiter_vars, server_vars, served, calls>>

\* the failover of the credential pool from the start of the process: the
\* configured index, initialize_settings, then calls under every behaviour of
\* the identity endpoint
PoolLoadSettings == LoadSettings(-1..NumTokens)
PoolInitializeSettings == InitializeSettings(Answers({"ok", "denied", "unreachable"}))
PoolGetCachedCopilotToken == GetCachedCopilotToken(Answers({"ok", "denied", "unreachable"}))

NextPool ==
    \/ PoolLoadSettings
    \/ PoolInitializeSettings
    \/ PoolGetCachedCopilotToken

SpecPool == Init /\ [][NextPool]_vars

\* the cache of the pool as time passes and tokens expire
CacheGetCachedCopilotToken == GetCachedCopilotToken(Answers({"ok", "denied"}))

NextCache ==
    \/ CacheGetCachedCopilotToken
    \/ PoolTick

SpecCache == Init /\ [][NextCache]_vars

\* the cursor of the pool: the configured index, set_current_token_index with
\* any index, and the failover of get_cached_copilot_token
CursorLoadSettings == LoadSettings(-1..NumTokens)
CursorSetCurrentTokenIndex == SetCurrentTokenIndex(-1..NumTokens)
CursorGetCachedCopilotToken == GetCachedCopilotToken(Answers({"ok", "denied"}))

NextCursor ==
    \/ CursorLoadSettings
    \/ CursorSetCurrentTokenIndex
    \/ CursorGetCachedCopilotToken

SpecCursor == Init /\ [][NextCursor]_vars

\* -------------------------------------- the coroutines of the credential pool
\* what a coroutine leaves when it waits or ends
Resumed(t, out) ==
    /\ active_token_index' = out.active
    /\ CACHED_TOKENS' = out.cached
    /\ TOKEN_ERRORS' = out.errors
    /\ calls' = [calls EXCEPT ![t] = Coroutine(out.stack, out.signal, out.value,
                                               out.exchanges)]

TheCall(t) == Running(calls[t], active_token_index, CACHED_TOKENS, TOKEN_ERRORS)

Ended(t) == calls[t].stack = <<>> /\ calls[t].signal \in {"return", "raise"}

InCall(t) == calls[t].stack # <<>>

\* a handler calls get_cached_copilot_token: the coroutine runs to its first
\* wait.  What the endpoint answers for each credential is settled with the
\* first call; a caller calls again only where `again` allows it.
CallGetCachedCopilotToken(T, U, again) ==
    \E t \in T, up \in U :
        /\ calls[t] = NotCalled \/ (again /\ Ended(t))
        /\ (\A u \in Callers : calls[u] = NotCalled) \/ up = upstream
        /\ upstream' = up
        /\ \E out \in {run(Running(Coroutine(
                               <<Awaiting("get_cached_copilot_token", "start", 0, 0)>>,
                               "call", NoToken, 0),
                           active_token_index, CACHED_TOKENS, TOKEN_ERRORS), clock)} :
               Resumed(t, out)
        /\ UNCHANGED <<pool_result, clock, limiter_vars, server_vars, served>>

\* the endpoint answers the request of a waiting refresh_token: what it
\* answers for the credential (`steady`) or anything
SessionGet(T, steady) ==
    \E t \in T :
        /\ InCall(t)
        /\ Top(calls[t]).pc = "exchange"
        /\ \E answer \in IF steady THEN {upstream[Top(calls[t]).index]}
                         ELSE {"ok", "denied", "unreachable"} :
               \E out \in {run(refresh_token_response(exchanged(TheCall(t)),
                                                      Top(calls[t]), answer, clock),
                               clock)} :
                   Resumed(t, out)
        /\ UNCHANGED <<upstream, pool_result, clock, limiter_vars, server_vars, served>>

\* asyncio.sleep is over in try_next_valid_token
AsyncioSleep(T) ==
    \E t \in T :
        /\ InCall(t)
        /\ Top(calls[t]).pc \in {"sleep2", "sleep1"}
        /\ \E out \in {run(try_next_valid_token_wake(TheCall(t), Top(calls[t])), clock)} :
               Resumed(t, out)
        /\ UNCHANGED <<upstream, pool_result, clock, limiter_vars, server_vars, served>>

\* two handlers in flight call get_cached_copilot_token once each while the
\* endpoint answers each credential in one way
RaceCall == CallGetCachedCopilotToken(Callers, Answers({"ok", "denied"}), FALSE)
RaceSessionGet == SessionGet(Callers, TRUE)
RaceAsyncioSleep == AsyncioSleep(Callers)

NextRace ==
    \/ RaceCall
    \/ RaceSessionGet
    \/ RaceAsyncioSleep

SpecRace == Init /\ [][NextRace]_vars

\* one handler at a time calls get_cached_copilot_token, again and again,
\* while the endpoint answers every request as it likes and tokens expire.
\* The event loop resumes a coroutine whose request was answered or whose
\* sleep is over.
OneCall == CallGetCachedCopilotToken({1}, {upstream}, TRUE)
OneSessionGet == SessionGet({1}, FALSE)
OneAsyncioSleep == AsyncioSleep({1})
OneTick ==
    /\ clock < MaxPoolTicks * TickSeconds
    /\ clock' = clock + TickSeconds
    /\ UNCHANGED <<active_token_index, CACHED_TOKENS, TOKEN_ERRORS, upstream,
                   pool_result, calls, limiter_vars, server_vars, served>>

NextOneCall ==
    \/ OneCall
    \/ OneSessionGet
    \/ OneAsyncioSleep
    \/ OneTick

SpecOneCall ==
    /\ Init
    /\ [][NextOneCall]_vars
    /\ WF_vars(OneSessionGet)
    /\ WF_vars(OneAsyncioSleep)

\* ------------------------------------------------- the helpers of server.py
\* the texts of at most n pieces over the pieces of S
Texts(S, n) == UNION {[1..k -> S] : k \in 0..n}

\* ------------------------------------------------ settings._load_rate_limits
\* str.lower() on the values of "behavior" that the files of the model hold
lower(text) ==
    IF text = "ERROR" THEN "error"
    ELSE IF text = "Delay" THEN "delay"
    ELSE text

\* an optional field of RateLimitSettings: absent, or gt=0
optional_positive(limit, key) == key \notin DOMAIN limit \/ limit[key] > 0

\* limit.get(key), None being 0 in a rule
limit_get(limit, key) == IF key \in DOMAIN limit THEN limit[key] ELSE 0

\* RateLimitSettings(window_minutes=limit["window_minutes"], ...,
\* behavior=RateLimitBehavior(limit.get("behavior").lower())) returns: the key
\* window_minutes is there and positive, the optional limits are positive,
\* "behavior" is there and names a behavior
rule_accepted(limit) ==
    /\ "window_minutes" \in DOMAIN limit
    /\ limit["window_minutes"] > 0
    /\ optional_positive(limit, "total_tokens")
    /\ optional_positive(limit, "input_tokens")
    /\ optional_positive(limit, "output_tokens")
    /\ optional_positive(limit, "requests")
    /\ "behavior" \in DOMAIN limit
    /\ lower(limit["behavior"]) \in {"error", "delay"}

RateLimitSettings(limit) ==
    RateLimitRule(limit["window_minutes"], limit_get(limit, "input_tokens"),
                  limit_get(limit, "output_tokens"), limit_get(limit, "total_tokens"),
                  limit_get(limit, "requests"), lower(limit["behavior"]))

\* the loop over rate_limits_data.items(), from item i: the list of a model is
\* converted as a whole and then stored; an exception ends the loop and what
\* was stored stays
RECURSIVE load_loop(_, _, _)
load_loop(rate_limits_data, i, converted_limits) ==
    IF i > Len(rate_limits_data) THEN converted_limits
    ELSE IF \E k \in 1..Len(rate_limits_data[i].limits) :
                ~rule_accepted(rate_limits_data[i].limits[k])
    THEN converted_limits
    ELSE load_loop(rate_limits_data, i + 1,
                   Put(converted_limits, rate_limits_data[i].model,
                       [k \in 1..Len(rate_limits_data[i].limits) |->
                           RateLimitSettings(rate_limits_data[i].limits[k])]))

\* Settings._load_rate_limits on a file: it may not exist, it may not be
\* JSON, or it holds the items (model, limits) in the order of the document
_load_rate_limits(file) ==
    IF ~file.exists THEN <<>>
    ELSE IF ~file.json THEN <<>>
    ELSE load_loop(file.data, 1, <<>>)

\* the entries of a limits list: two that pass, and a negative window with an
\* unknown behavior, a zero limit, no behavior, no window
Limits ==
    { [window_minutes |-> 1, requests |-> 2, behavior |-> "Delay"],
      [window_minutes |-> 2, total_tokens |-> 2, behavior |-> "ERROR"],
      [window_minutes |-> -1, behavior |-> "invalid"],
      [window_minutes |-> 1, requests |-> 0, behavior |-> "error"],
      [window_minutes |-> 1, requests |-> 1],
      [requests |-> 1, behavior |-> "error"] }

\* the files: none, one that is not JSON, and the documents with at most one
\* list of at most MaxRules entries for each model, in either order
Documents ==
    { data \in Texts([model : Models, limits : Texts(Limits, MaxRules)], 2) :
          Len(data) = 2 => data[1].model # data[2].model }

Files ==
    { [exists |-> FALSE, json |-> FALSE, data |-> <<>>],
      [exists |-> TRUE, json |-> FALSE, data |-> <<>>] }
    \cup { [exists |-> TRUE, json |-> TRUE, data |-> data] : data \in Documents }

\* Settings(): the default of rate_limits is _load_rate_limits()
LoadRateLimits(F) ==
    /\ served.op = "init"
    /\ \E file \in F :
           served' = [op |-> "_load_rate_limits", arg |-> file,
                      rate_limits |-> _load_rate_limits(file)]
    /\ UNCHANGED <<limiter_vars, clock, server_vars, pool_vars>>

LoadFiles == LoadRateLimits(Files)

NextLoad == LoadFiles

SpecLoad == Init /\ [][NextLoad]_vars

\* parse_accumulated_sse_data called with a text of X.  A helper keeps no
\* state: one call on every input shows all it does.
ParseAccumulatedSseData(X) ==
    \E accumulated_text \in X :
        /\ served.op = "init"
        /\ served' = [op |-> "parse_accumulated_sse_data",
                      arg |-> accumulated_text,
                      ret |-> parse_accumulated_sse_data(accumulated_text)]
        /\ UNCHANGED <<clock, limiter_vars, server_vars, pool_vars>>

\* the parser on every short text of prefixes, line feeds, markers, documents
\* and other characters
NextParse ==
    ParseAccumulatedSseData(
        Texts({"data: ", LF, "[DONE]", "{content}", "x"}, MaxText))

SpecParse == Init /\ [][NextParse]_vars

\* the bodies preprocess_request_body is called with: every model name of
\* Names with at most MaxMessages messages, system or user, whose content is a
\* string, an array of text items, an array with an image, or absent
Names == {<<>>, <<"o">>, <<"o", "1">>, <<"o", "1", "-mini">>, <<"gpt-4", "o", "1">>}

Contents ==
    { [kind |-> "str", text |-> "x"],
      [kind |-> "missing"],
      [kind |-> "list", items |-> <<>>],
      [kind |-> "list", items |-> <<[type |-> "text", text |-> "x"]>>],
      [kind |-> "list", items |-> <<[type |-> "text", text |-> "x"],
                                    [type |-> "text", text |-> "y"]>>],
      [kind |-> "list", items |-> <<[type |-> "text", text |-> "x"],
                                    [type |-> "image_url", text |-> "y"]>>] }

Messages == [role : {"system", "user"}, content : Contents]

Bodies == [model : Names, messages : Texts(Messages, MaxMessages)]

PreprocessRequestBody(B) ==
    \E request_body \in B :
        /\ served.op = "init"
        /\ served' = [op |-> "preprocess_request_body",
                      arg |-> request_body,
                      ret |-> preprocess_request_body(request_body)]
        /\ UNCHANGED <<clock, limiter_vars, server_vars, pool_vars>>

NextPreprocess == PreprocessRequestBody(Bodies)

SpecPreprocess == Init /\ [][NextPreprocess]_vars

\* the events of one response: at most MaxEvents of the documents of Decoded
Events == {Decoded[j] : j \in DOMAIN Decoded}

\* process_usage_and_show_statistics called with the events of one response,
\* the store working or failing
ProcessUsage(M, E) ==
    \E model \in M, parsed_events \in E, store_ok \in BOOLEAN :
        /\ served.op = "init"
        /\ token_usage' = process_usage_and_show_statistics(token_usage, clock, model,
                                                            parsed_events, store_ok)
        /\ served' = [op |-> "process_usage_and_show_statistics",
                      model |-> model,
                      arg |-> parsed_events,
                      store_ok |-> store_ok,
                      before |-> token_usage]
        /\ UNCHANGED <<rules, request_counters, next_allowed_request, result, clock,
                       server_vars, pool_vars>>

NextUsage == ProcessUsage({"m1"}, Texts(Events, MaxEvents))

SpecUsage == Init /\ [][NextUsage]_vars

\* the state a request works on, and its installation
World ==
    [counters |-> request_counters, nar |-> next_allowed_request,
     store |-> token_usage, pool |-> ThePool, now |-> clock,
     recorded |-> recorded, trace |-> <<>>, is_streaming |-> FALSE]

Settled(w) ==
    /\ request_counters' = w.counters
    /\ next_allowed_request' = w.nar
    /\ token_usage' = w.store
    /\ active_token_index' = w.pool.active
    /\ CACHED_TOKENS' = w.pool.cached
    /\ TOKEN_ERRORS' = w.pool.errors
    /\ clock' = w.now
    /\ recorded' = w.recorded

\* what may happen outside during one request: the identity endpoint answers
\* all credentials or none, an upstream error has no chunks, and what cannot
\* matter has one value (the store when no chunk comes or when the body is
\* cancelled, the response after a cancelled sleep)
Nets(S, C, K) ==
    { net \in [up : {[i \in 0..(NumTokens - 1) |-> a] : a \in {"ok", "unreachable"}},
               status : S, chunks : C, cancel : K,
               received : 0..MaxChunks, again : BOOLEAN,
               store_ok : BOOLEAN, str_detail : BOOLEAN] :
        /\ net.received <= Len(net.chunks)
        /\ net.cancel # "body" => net.received = Len(net.chunks)
        /\ net.cancel # "request_sleep" => ~net.again
        /\ net.status = 200 => net.str_detail
        /\ net.status # 200 => net.chunks = <<>>
        /\ net.up[0] # "ok" => net.status = 200 /\ net.chunks = <<>>
        /\ net.chunks = <<>> => net.store_ok /\ net.cancel # "body"
        /\ net.cancel = "body" => net.store_ok
        /\ net.cancel = "request_sleep" => net.status = 200 /\ net.chunks = <<>> }

\* POST /chat/completions served from the request to the end of the response
ChatCompletions(B, N) ==
    /\ handler[1].pc = "idle"
    /\ Len(recorded) < MaxCompletions
    /\ \E request_body \in B, net \in N :
           \E out \in {chat_completions(World, rules, request_body, net)} :
               /\ Len(out.w.store) <= MaxUsage
               /\ out.w.now <= MaxTicks * TickSeconds
               /\ Settled(out.w)
               /\ upstream' = net.up
               /\ served' = [op |-> "proxy_chat_completions", arg |-> request_body,
                             net |-> net, status_code |-> out.status_code,
                             body |-> out.body, trace |-> out.w.trace,
                             before |-> World]
    /\ UNCHANGED <<rules, result, handler, pool_result, calls>>

\* GET /models
ListModels(N) ==
    /\ handler[1].pc = "idle"
    /\ \E net \in N :
           \E out \in {list_models(World, net)} :
               /\ Settled(out.w)
               /\ upstream' = net.up
               /\ served' = [op |-> "list_models", arg |-> <<>>,
                             net |-> net, status_code |-> out.status_code,
                             body |-> out.body, trace |-> out.w.trace,
                             before |-> World]
    /\ UNCHANGED <<rules, result, handler, pool_result, calls>>

\* the requests of the delivery: one model, rules that reject or delay the
\* second request and reject after the first usage, a body that passes and
\* one with an image, chunks that are SSE frames
Gpt == <<"gpt-4">>

DeliveryRules ==
    { RateLimitRule(1, 0, 0, 0, 1, "error"),
      RateLimitRule(1, 0, 0, 0, 1, "delay"),
      RateLimitRule(1, 0, 0, 1, 0, "error") }

DeliveryBodies ==
    { [model |-> Gpt,
       messages |-> <<[role |-> "user", content |-> [kind |-> "str", text |-> "x"]]>>],
      [model |-> Gpt,
       messages |-> <<[role |-> "user",
                       content |-> [kind |-> "list",
                                    items |-> <<[type |-> "image_url", text |-> "y"]>>]]>>] }

Frame(document) == <<"data: ", document, LF, LF>>

DeliveryNets ==
    Nets({200, 500}, Texts({Frame("{usage:1+2}")}, MaxChunks),
         {"never", "request_sleep", "body"})

ModelsNets == Nets({200, 429, 500}, {<<>>}, {"never"})

DeliveryLifespan == lifespan({Gpt}, DeliveryRules)
DeliveryChatCompletions == ChatCompletions(DeliveryBodies, DeliveryNets)
DeliveryListModels == ListModels(ModelsNets)

NextDelivery ==
    \/ DeliveryLifespan
    \/ lifespan_yield
    \/ DeliveryChatCompletions
    \/ DeliveryListModels

SpecDelivery == Init /\ [][NextDelivery]_vars

\* the admission: request rules only, responses of at most one frame, a
\* client that may cancel
AdmissionRules ==
    { RateLimitRule(1, 0, 0, 0, 1, "error"),
      RateLimitRule(1, 0, 0, 0, 1, "delay") }

AdmissionNets ==
    Nets({200, 500}, {<<>>, <<Frame("{usage:1+2}")>>}, {"never", "request_sleep", "body"})

AdmissionLifespan == lifespan({Gpt}, AdmissionRules)
AdmissionChatCompletions == ChatCompletions(DeliveryBodies, AdmissionNets)

NextAdmission ==
    \/ AdmissionLifespan
    \/ lifespan_yield
    \/ AdmissionChatCompletions

SpecAdmission == Init /\ [][NextAdmission]_vars

\* the requests to an o1 model and to another one, with and without stream,
\* under a limit on the tokens; the upstream answers every request with one
\* JSON document, which is also the only chunk of the body read as a stream
O1Mini == <<"o", "1", "-mini">>

O1Rules == { RateLimitRule(1, 0, 0, 1, 0, "error") }

O1Bodies ==
    { [model |-> name, stream |-> stream,
       messages |-> <<[role |-> "user", content |-> [kind |-> "str", text |-> "x"]]>>] :
          name \in {O1Mini, Gpt}, stream \in BOOLEAN }
    \cup { [model |-> O1Mini,
            messages |-> <<[role |-> "user", content |-> [kind |-> "str", text |-> "x"]]>>] }

O1Nets ==
    { [up |-> [i \in 0..(NumTokens - 1) |-> "ok"], status |-> status,
       chunks |-> <<<<json_dumps(data)>>>>, cancel |-> "never", received |-> 1,
       again |-> FALSE, store_ok |-> TRUE, str_detail |-> TRUE, data |-> data] :
          status \in {200, 500}, data \in O1Answers }

O1Lifespan == lifespan({O1Mini}, O1Rules)
O1ChatCompletions == ChatCompletions(O1Bodies, O1Nets)

NextO1 ==
    \/ O1Lifespan
    \/ lifespan_yield
    \/ O1ChatCompletions

SpecO1 == Init /\ [][NextO1]_vars

\* =================================================================== claims
\* what the claims speak of, written from their words and not from the code

\* the requests counted for (model, window_minutes) at `now`: the sum of the
\* counts recorded with timestamp >= now - window
WindowCount(model, window_minutes, now) ==
    IF model \in DOMAIN request_counters
       /\ window_minutes \in DOMAIN request_counters[model]
    THEN LET d == request_counters[model][window_minutes]
         IN  SumOver(d, {ts \in DOMAIN d : ts >= now - Minutes(window_minutes)})
    ELSE 0

RequestViolated(model, rule, now) ==
    /\ rule.requests # 0
    /\ WindowCount(model, rule.window_minutes, now) >= rule.requests

RulesOf(model) ==
    IF model \in DOMAIN rules
    THEN {rules[model][i] : i \in 1..Len(rules[model])}
    ELSE {}

Armed(model) ==
    /\ model \in DOMAIN next_allowed_request
    /\ clock < next_allowed_request[model]

\* the state right after check_request(model, clock) returned or raised
AfterCheckRequest(model) ==
    /\ result.op = "check_request"
    /\ result.model = model
    /\ model \in DOMAIN rules

\* the requests of `model` the handler recorded with a timestamp in the
\* window (now - window, now]; a request exactly one window old is left out,
\* which is the reading most favourable to the limiter
RecordedWithin(model, window_minutes, now) ==
    Cardinality({i \in 1..Len(recorded) :
                    /\ recorded[i][1] = model
                    /\ recorded[i][2] > now - Minutes(window_minutes)
                    /\ recorded[i][2] <= now})

\* C1: when the admissions are served one after the other (check_request, the
\* delay slept, then record_request), for every model and every rule with
\* requests = k and window w, the number of recorded requests whose timestamp
\* lies in a sliding window of width w is at most k. Every window that holds a
\* recorded request is inside one that ends at a recorded timestamp, so those
\* windows are the ones examined.
C1_SerialAdmissionsWithinLimit ==
    \A m \in Models :
        \A rule \in RulesOf(m) :
            rule.requests # 0 =>
                \A j \in 1..Len(recorded) :
                    RecordedWithin(m, rule.window_minutes, recorded[j][2])
                        <= rule.requests

\* C2: for a model whose only rule is (w, k, ERROR) and with no next_allowed_at
\* armed, check_request raises exactly when the counts recorded with
\* timestamp >= now - w sum to k or more, and returns none otherwise
C2_ErrorRuleSlidingWindow ==
    \A m \in Models :
        ( /\ AfterCheckRequest(m)
          /\ Len(rules[m]) = 1
          /\ rules[m][1].behavior = "error"
          /\ rules[m][1].requests # 0
          /\ m \notin DOMAIN next_allowed_request )
        => LET n == WindowCount(m, rules[m][1].window_minutes, clock)
           IN  /\ result.kind = "raise" <=> n >= rules[m][1].requests
               /\ n < rules[m][1].requests => result.kind = "none"

\* C2 witness: k requests recorded more than w ago are still held by the
\* counter, and check_request returns none
C2_Witness ==
    \E m \in Models :
        /\ AfterCheckRequest(m)
        /\ Len(rules[m]) = 1
        /\ rules[m][1].behavior = "error"
        /\ rules[m][1].requests # 0
        /\ result.kind = "none"
        /\ LET w == rules[m][1].window_minutes
               d == request_counters[m][w]
               old == {ts \in DOMAIN d : ts < clock - Minutes(w)}
           IN  SumOver(d, old) >= rules[m][1].requests

\* the rule is the only request rule of the model with its window, so that the
\* counter of (model, window) holds each recorded request once
OwnsWindow(model, rule) ==
    Cardinality({i \in 1..Len(rules[model]) :
                    /\ rules[model][i].requests # 0
                    /\ rules[model][i].window_minutes = rule.window_minutes}) = 1

NoErrorRuleViolated(model) ==
    \A r \in RulesOf(model) :
        r.behavior = "error" => ~RequestViolated(model, r, clock)

\* C3: check_request raises whenever an ERROR rule of the model has its request
\* limit violated, whatever else holds (rule order, token usage, violated
\* DELAY rules, an armed next_allowed_at)
C3_ErrorViolationAlwaysRaises ==
    \A m \in Models :
        ( /\ AfterCheckRequest(m)
          /\ \E r \in RulesOf(m) :
                 r.behavior = "error" /\ RequestViolated(m, r, clock) )
        => result.kind = "raise"

\* C4: when no ERROR rule is violated, check_request returns the maximum of the
\* carry-over delay and the needed delays of the violated DELAY request rules,
\* and none only when that maximum is 0
C4_DelayIsMaxOfRuleDelays ==
    \A m \in Models :
        (AfterCheckRequest(m) /\ NoErrorRuleViolated(m))
        => LET carry == IF Armed(m) THEN next_allowed_request[m] - clock ELSE 0
               needed == { _calculate_needed_delay(request_counters, m, r, clock) :
                           r \in {x \in RulesOf(m) :
                                     /\ x.behavior = "delay"
                                     /\ RequestViolated(m, x, clock)} }
               expected == SetMax({0, carry} \cup needed)
           IN  IF expected > 0
               THEN result.kind = "delay" /\ result.delay = expected
               ELSE result.kind = "none"

\* C5: whenever a DELAY rule's request limit is violated and no ERROR rule is,
\* check_request returns a delay that is not none and is > 0
C5_ViolatedDelayRuleDelays ==
    \A m \in Models :
        ( /\ AfterCheckRequest(m)
          /\ NoErrorRuleViolated(m)
          /\ \E r \in RulesOf(m) :
                 /\ r.behavior = "delay"
                 /\ OwnsWindow(m, r)
                 /\ RequestViolated(m, r, clock) )
        => (result.kind = "delay" /\ result.delay > 0)

\* the timestamps of the requests recorded in the window, most recent first,
\* a timestamp recorded c times appearing c times
RECURSIVE Repeat(_, _)
Repeat(x, n) == IF n = 0 THEN <<>> ELSE <<x>> \o Repeat(x, n - 1)

RECURSIVE WithMultiplicity(_, _)
WithMultiplicity(d, S) ==
    IF S = {} THEN <<>>
    ELSE Repeat(SetMax(S), d[SetMax(S)]) \o WithMultiplicity(d, S \ {SetMax(S)})

RecordedInWindow(model, window_minutes, now) ==
    IF model \in DOMAIN request_counters
       /\ window_minutes \in DOMAIN request_counters[model]
    THEN LET d == request_counters[model][window_minutes]
         IN  WithMultiplicity(d, {ts \in DOMAIN d : ts >= now - Minutes(window_minutes)})
    ELSE <<>>

\* C6: for a violated request rule (w, limit) the needed delay is
\* max(0, T[limit-1] + w - now), T the recorded requests of the window, most
\* recent first, with their multiplicity (T[limit-1] is the limit-th of them)
C6_NeededDelayFromLimitThRequest ==
    \A m \in Models :
        AfterCheckRequest(m)
        => \A r \in RulesOf(m) :
               (OwnsWindow(m, r) /\ RequestViolated(m, r, clock))
               => LET T == RecordedInWindow(m, r.window_minutes, clock)
                  IN  _calculate_needed_delay(request_counters, m, r, clock)
                      = Max(0, T[r.requests] + Minutes(r.window_minutes) - clock)

\* what the usage store reports for the model over [lo, hi]
RECURSIVE SumField(_, _, _)
SumField(rows, S, field) ==
    IF S = {} THEN 0
    ELSE LET i == CHOOSE x \in S : TRUE
         IN  rows[i][field] + SumField(rows, S \ {i}, field)

Used(model, field, lo, hi) ==
    SumField(token_usage,
             {i \in 1..Len(token_usage) :
                 /\ token_usage[i].model = model
                 /\ token_usage[i].timestamp >= lo
                 /\ token_usage[i].timestamp <= hi},
             field)

DimensionViolated(model, rule, dim, now) ==
    /\ rule[dim] # 0
    /\ Used(model, dim, now - Minutes(rule.window_minutes), now) > rule[dim]

TokenViolated(model, rule, now) ==
    \E dim \in {"total_tokens", "input_tokens", "output_tokens"} :
        DimensionViolated(model, rule, dim, now)

\* the state right after check_tokens(model, clock) returned or raised
AfterCheckTokens(model) ==
    /\ result.op = "check_tokens"
    /\ result.model = model
    /\ model \in DOMAIN rules

\* C7: a token rule is violated exactly when the usage of a configured dimension
\* over [now - window, now] is strictly greater than its limit: check_tokens
\* raises exactly when an ERROR rule is violated so, and returns none when no
\* rule is (usage equal to the limit passes)
C7_TokenRuleViolatedIffAboveLimit ==
    \A m \in Models :
        AfterCheckTokens(m)
        => /\ result.kind = "raise"
              <=> \E r \in RulesOf(m) :
                      r.behavior = "error" /\ TokenViolated(m, r, clock)
           /\ (\A r \in RulesOf(m) : ~TokenViolated(m, r, clock))
              => result.kind = "none"

\* C7 witness: the usage of a configured dimension equals its limit, and
\* check_tokens returns none
C7_Witness ==
    \E m \in Models :
        /\ AfterCheckTokens(m)
        /\ result.kind = "none"
        /\ \E r \in RulesOf(m) :
               \E dim \in {"total_tokens", "input_tokens", "output_tokens"} :
                   /\ r[dim] # 0
                   /\ Used(m, dim, clock - Minutes(r.window_minutes), clock) = r[dim]

\* C8: a delay returned by check_tokens is at most MAX_DELAY_SECONDS
C8_TokenDelayCapped ==
    \A m \in Models :
        (AfterCheckTokens(m) /\ result.kind = "delay")
        => result.delay <= MAX_DELAY_SECONDS

\* C8 witness: a DELAY rule with a window longer than the cap whose usage is
\* twice its limit or more, and check_tokens returns exactly the cap
C8_Witness ==
    \E m \in Models :
        /\ AfterCheckTokens(m)
        /\ result.kind = "delay"
        /\ result.delay = MAX_DELAY_SECONDS
        /\ \E r \in RulesOf(m) :
               /\ r.behavior = "delay"
               /\ r.total_tokens # 0
               /\ Minutes(r.window_minutes) > MAX_DELAY_SECONDS
               /\ Used(m, "total_tokens", clock - Minutes(r.window_minutes), clock)
                  >= 2 * r.total_tokens

\* the proportional delay on the dimension that is violated: total if violated,
\* else input, else output
ViolatedDimension(model, rule, now) ==
    IF DimensionViolated(model, rule, "total_tokens", now) THEN "total_tokens"
    ELSE IF DimensionViolated(model, rule, "input_tokens", now) THEN "input_tokens"
    ELSE "output_tokens"

ProportionalDelay(model, rule, now) ==
    LET dim   == ViolatedDimension(model, rule, now)
        used  == Used(model, dim, now - Minutes(rule.window_minutes), now)
        limit == rule[dim]
    IN  Min(MAX_DELAY_SECONDS,
            (Minutes(rule.window_minutes) * (Min(2 * limit, used) - limit)) \div limit)

\* C9: on a violation of a DELAY token rule the delay is the proportional delay
\* of the violated dimension, so it is > 0 and next_allowed_at is armed later
\* than now
C9_DelayFromViolatedDimension ==
    \A m \in Models :
        (AfterCheckTokens(m) /\ result.kind # "raise")
        => \A r \in RulesOf(m) :
               (r.behavior = "delay" /\ TokenViolated(m, r, clock))
               => /\ result.kind = "delay"
                  /\ result.delay > 0
                  /\ result.delay >= ProportionalDelay(m, r, clock)
                  /\ Len(rules[m]) = 1 => result.delay = ProportionalDelay(m, r, clock)
                  /\ m \in DOMAIN next_allowed_request
                  /\ next_allowed_request[m] > clock

\* once next_allowed_at is armed, a check_request made before it returns a delay
ArmedCheckReturnsDelay ==
    \A m \in Models :
        (AfterCheckRequest(m) /\ Armed(m))
        => (result.kind = "delay" /\ result.delay >= 0)

C11_NoEntryOlderThanTwoWindows ==
    \A m \in Models :
        AfterCheckRequest(m)
        => \A w \in (IF m \in DOMAIN request_counters
                     THEN DOMAIN request_counters[m] ELSE {}) :
               \A ts \in DOMAIN request_counters[m][w] :
                   ts >= clock - Minutes(2 * w)

\* the credentials, and what the credential call made last did
TokenIndices == 0..(NumTokens - 1)

AfterGetCachedCopilotToken == pool_result.op = "get_cached_copilot_token"

\* the indices the call exchanged, in the order of the exchanges
RECURSIVE ExchangesOf(_)
ExchangesOf(trace) ==
    IF trace = <<>> THEN <<>>
    ELSE IF Head(trace).ev = "exchange"
    THEN <<Head(trace).index>> \o ExchangesOf(Tail(trace))
    ELSE ExchangesOf(Tail(trace))

Exchanges == ExchangesOf(pool_result.trace)

\* the exchange of the credential that was active when the call started failed
ActiveExchangeFailed ==
    /\ AfterGetCachedCopilotToken
    /\ \E k \in 1..Len(pool_result.trace) :
           /\ pool_result.trace[k].ev = "exchange"
           /\ pool_result.trace[k].index = pool_result.index
           /\ ~pool_result.trace[k].ok

\* the credentials after the one active at the start whose exchange succeeds
HigherSucceeding == {j \in TokenIndices : j > pool_result.index /\ upstream[j] = "ok"}

SetMin(S) == CHOOSE x \in S : \A y \in S : x <= y

\* C12: when the exchange of the active credential fails and some credential
\* with a higher index succeeds, get_cached_copilot_token ends with the active
\* index set to the lowest such index and returns a token obtained from it
C12_FailoverToFirstSuccess ==
    (ActiveExchangeFailed /\ HigherSucceeding # {})
    => /\ pool_result.ok
       /\ active_token_index = SetMin(HigherSucceeding)
       /\ pool_result.token.source = SetMin(HigherSucceeding)

\* C12 witness: the failover passed over a failing credential and installed
\* the one after it
C12_Witness ==
    /\ ActiveExchangeFailed
    /\ HigherSucceeding # {}
    /\ active_token_index = SetMin(HigherSucceeding)
    /\ active_token_index > pool_result.index + 1
    /\ pool_result.token.source = active_token_index

\* the call failed over: it returned with another credential active than the
\* one it started from
FailedOver ==
    /\ ActiveExchangeFailed
    /\ pool_result.ok
    /\ active_token_index # pool_result.index

\* C13: after a failover triggered inside get_cached_copilot_token by a
\* non-2xx answer for the active credential i, the error recorded for i is
\* still there, with the parsed upstream message, when the call returns
C13_ErrorKeptAfterFailover ==
    (FailedOver /\ upstream[pool_result.index] = "denied")
    => /\ pool_result.index \in DOMAIN TOKEN_ERRORS
       /\ TOKEN_ERRORS[pool_result.index].base = "denied"

\* the steps of the last call, in order
Steps == pool_result.trace

\* the last exchange of credential i in the last call succeeded
LastExchangeSucceeded(i) ==
    \E k \in 1..Len(Steps) :
        /\ Steps[k].ev = "exchange" /\ Steps[k].index = i /\ Steps[k].ok
        /\ \A l \in (k+1)..Len(Steps) :
               ~(Steps[l].ev = "exchange" /\ Steps[l].index = i)

\* C14: for every credential index i, immediately after an exchange of
\* credential i succeeds the error map has no entry for i, and so it is when
\* the call ends after a successful exchange of i
C14_SuccessClearsError ==
    /\ \A k \in 1..Len(Steps) :
           (Steps[k].ev = "exchange" /\ Steps[k].ok) => ~Steps[k].has_error
    /\ \A i \in TokenIndices :
           LastExchangeSucceeded(i) => i \notin DOMAIN TOKEN_ERRORS

\* a successful exchange deleted the error an earlier call had recorded
C14_Witness ==
    \E k \in 1..(Len(Steps) - 1) :
        /\ Steps[k].ev = "write_errors" /\ Steps[k].ok /\ ~Steps[k].locked
        /\ Steps[k+1].ev = "exchange" /\ Steps[k+1].ok
        /\ Steps[k+1].index = Steps[k].index
        /\ Steps[k].index \notin DOMAIN TOKEN_ERRORS

\* C15: get_cached_copilot_token fails with the all-exhausted error only when
\* the exchange of the active credential fails and the exchange of every
\* credential with a higher index fails too; it raises nothing else
C15_ExhaustedOnlyWhenAllFail ==
    (AfterGetCachedCopilotToken /\ ~pool_result.ok)
    => /\ pool_result.err = Message(<<>>, "exhausted")
       /\ ActiveExchangeFailed
       /\ \A k \in TokenIndices :
              k >= pool_result.index
              => /\ upstream[k] # "ok"
                 /\ \E l \in 1..Len(Steps) :
                        /\ Steps[l].ev = "exchange"
                        /\ Steps[l].index = k
                        /\ ~Steps[l].ok

\* the call raised although a credential below the active one still answers
C15_Witness ==
    /\ AfterGetCachedCopilotToken
    /\ ~pool_result.ok
    /\ pool_result.index > 0
    /\ pool_result.index < NumTokens - 1
    /\ upstream[0] = "ok"

\* before a call: a token is cached for the active index and it expires later
\* than 300 seconds from now
CachedAndFresh ==
    /\ active_token_index \in DOMAIN CACHED_TOKENS
    /\ CACHED_TOKENS[active_token_index].expires_at > clock + 300

\* C16: get_cached_copilot_token returns the cached token of the active index
\* without any exchange if and only if a token is cached for that index with
\* expires_at > now + 300 seconds; in every other case it performs an exchange
\* before it returns a token
C16_CachedIffFreshBeyondMargin ==
    [][pool_result'.op = "get_cached_copilot_token"
       => /\ CachedAndFresh
             <=> /\ ExchangesOf(pool_result'.trace) = <<>>
                 /\ pool_result'.ok
                 /\ pool_result'.token = CACHED_TOKENS[active_token_index]
          /\ CachedAndFresh
             => UNCHANGED <<active_token_index, CACHED_TOKENS, TOKEN_ERRORS>>
          /\ (~CachedAndFresh /\ pool_result'.ok)
             => ExchangesOf(pool_result'.trace) # <<>>]_vars

\* a call was answered from the cache after time has passed: the token cached
\* at the start is within the margin by then, the one served was cached since
C16_Witness ==
    /\ AfterGetCachedCopilotToken
    /\ pool_result.ok
    /\ pool_result.trace = <<>>
    /\ pool_result.token = CACHED_TOKENS[active_token_index]
    /\ clock = TickSeconds

InRange(i) == 0 <= i /\ i < NumTokens

\* C17: in every reachable state 0 <= active_token_index < N, N the number of
\* configured refresh credentials: a configured index out of range is
\* rejected, set_current_token_index rejects an index out of range and leaves
\* the cursor unchanged, and failover installs indices in range only
C17_ActiveIndexInRange ==
    /\ [](InRange(active_token_index))
    /\ [][/\ pool_result'.op = "settings_rejected"
             <=> (pool_result.op = "init" /\ pool_result'.op # "init"
                  /\ ~InRange(pool_result'.index)
                  /\ pool_result'.op \in {"settings", "settings_rejected"})
          /\ pool_result'.op = "settings_rejected"
             => active_token_index' = active_token_index
          /\ pool_result'.op = "set_current_token_index"
             => IF InRange(pool_result'.index)
                THEN pool_result'.ok /\ active_token_index' = pool_result'.index
                ELSE ~pool_result'.ok /\ active_token_index' = active_token_index
          /\ pool_result'.op = "get_cached_copilot_token"
             => \A k \in 1..Len(pool_result'.trace) :
                    pool_result'.trace[k].ev = "write_cursor"
                    => InRange(pool_result'.trace[k].index)]_vars

\* set_current_token_index has just rejected an index out of range, the cursor
\* standing on the last credential after a failover or a set
C17_Witness ==
    /\ pool_result.op = "set_current_token_index"
    /\ ~pool_result.ok
    /\ pool_result.index = NumTokens
    /\ active_token_index = NumTokens - 1

\* C18: within one get_cached_copilot_token call failover probes indices
\* greater than the active index only, in increasing order: no exchange of an
\* index below the one active at the start of the call, and no exchange of an
\* index below one exchanged earlier in the call
C18_ProbesInIncreasingOrder ==
    AfterGetCachedCopilotToken
    => /\ \A k \in 1..Len(Exchanges) : Exchanges[k] >= pool_result.index
       /\ \A k \in 1..(Len(Exchanges) - 1) : Exchanges[k] <= Exchanges[k+1]

\* C19: every mutation of the cache map, of the active-index cursor and of the
\* error map is performed while TOKEN_LOCK is held
C19_WritesUnderTokenLock ==
    \A k \in 1..Len(Steps) :
        Steps[k].ev \in {"write_cache", "write_cursor", "write_errors"}
        => Steps[k].locked

\* the rules of m1 that limit the requests
RequestLimits == {rule \in RulesOf("m1") : rule.requests # 0}

\* how many rules of m1 limit the requests of the window: record_request adds
\* one to the counter of the window for each of them
SharingWindow(window_minutes) ==
    Cardinality({i \in 1..Len(rules["m1"]) :
                    /\ rules["m1"][i].requests # 0
                    /\ rules["m1"][i].window_minutes = window_minutes})

\* C20: check_request and record_request are not atomic as a pair.  The
\* admission check counts nothing for the request it admits and admits it when
\* the count is below the limit of every ERROR rule; record_request, made
\* after the answer, counts it whatever the count has become.  So two requests
\* in flight at the same time can both be admitted below the limit and both
\* be recorded, the count of the window ending above the limit (the witness).
C20_CheckThenRecordNotAtomic ==
    [][/\ result'.op = "proxy_chat_completions"
          => /\ recorded' = recorded
             /\ \A rule \in RequestLimits :
                    WindowCount("m1", rule.window_minutes, clock)'
                        = WindowCount("m1", rule.window_minutes, clock)
             /\ result'.kind # "raise"
                => \A rule \in RequestLimits :
                       rule.behavior = "error"
                       => WindowCount("m1", rule.window_minutes, clock) < rule.requests
       /\ recorded' # recorded
          => \A rule \in RequestLimits :
                 WindowCount("m1", rule.window_minutes, clock)'
                     = WindowCount("m1", rule.window_minutes, clock)
                       + SharingWindow(rule.window_minutes)]_vars

\* two requests were admitted before either was recorded, both were recorded
\* inside one window, and the count of an ERROR rule's window is above its limit
C20_Witness ==
    \E rule \in RequestLimits :
        /\ rule.behavior = "error"
        /\ RecordedWithin("m1", rule.window_minutes, clock) > rule.requests
        /\ WindowCount("m1", rule.window_minutes, clock) > rule.requests
        /\ \E i, j \in 1..Len(recorded) :
               /\ i < j
               /\ recorded[i][3] < i
               /\ recorded[j][3] < i
               /\ recorded[i][2] > clock - Minutes(rule.window_minutes)
               /\ recorded[j][2] > clock - Minutes(rule.window_minutes)

\* the frame that ends a stream: data: [DONE] and a blank line
Terminator == <<"data: ", "[DONE]", LF, LF>>

\* C29: parsing X and parsing X followed by the frame data: [DONE] and a blank
\* line yield the same list of events, for every text X, also when X does not
\* end with a blank line
C29_ParseIgnoresTerminator ==
    served.op = "parse_accumulated_sse_data"
    => parse_accumulated_sse_data(served.arg \o Terminator) = served.ret

\* the roles of the messages of a body
Roles(body) == {body.messages[i].role : i \in 1..Len(body.messages)}

\* C30: for every request body whose model name starts with o1, the body that
\* request normalization produces has no message whose role is system, whether
\* the content of the message was a string or an array
C30_NoSystemRoleForO1 ==
    (/\ served.op = "preprocess_request_body"
     /\ startswith(served.arg.model, <<"o", "1">>)
     /\ served.ret.ok)
    => "system" \notin Roles(served.ret.body)

\* an o1 body with a system message of string content and one of array
\* content was normalized, and the array became one message per item
C30_Witness ==
    /\ served.op = "preprocess_request_body"
    /\ served.arg.model = <<"o", "1", "-mini">>
    /\ served.ret.ok
    /\ Len(served.arg.messages) = 2
    /\ served.arg.messages[1] = [role |-> "system", content |-> [kind |-> "str", text |-> "x"]]
    /\ served.arg.messages[2].role = "system"
    /\ served.arg.messages[2].content.kind = "list"
    /\ Len(served.ret.body.messages) = 3
    /\ Roles(served.ret.body) = {"user"}

\* the sum of one count of the usage objects of the events, a usage or a
\* count that is missing being zero
RECURSIVE SumOfUsage(_, _)
SumOfUsage(events, key) ==
    IF events = <<>> THEN 0
    ELSE (IF "usage" \in DOMAIN Head(events) /\ key \in DOMAIN Head(events).usage
          THEN Head(events).usage[key] ELSE 0)
         + SumOfUsage(Tail(events), key)

\* the rows written by the last call of process_usage_and_show_statistics
NewRows == SubSeq(token_usage, Len(served.before) + 1, Len(token_usage))

\* C27: the usage recorded for one response is a single record: never more
\* than one row is written, and with events parsed and the store working the
\* row has input = the sum of usage.prompt_tokens, output = the sum of
\* usage.completion_tokens over all events and total = input + output
C27_SingleRecordOfSums ==
    served.op = "process_usage_and_show_statistics" =>
        /\ Len(NewRows) <= 1
        /\ SubSeq(token_usage, 1, Len(served.before)) = served.before
        /\ (served.arg # <<>> /\ served.store_ok) =>
              /\ Len(NewRows) = 1
              /\ NewRows[1].model = served.model
              /\ NewRows[1].input_tokens = SumOfUsage(served.arg, "prompt_tokens")
              /\ NewRows[1].output_tokens = SumOfUsage(served.arg, "completion_tokens")
              /\ NewRows[1].total_tokens = NewRows[1].input_tokens + NewRows[1].output_tokens

\* three events, two of them with usage (1+2 and 2+0), gave one row 3, 2, 5
C27_Witness ==
    /\ served.op = "process_usage_and_show_statistics"
    /\ served.arg = <<Decoded["{content}"], Decoded["{usage:1+2}"], Decoded["{usage:2}"]>>
    /\ Len(NewRows) = 1
    /\ NewRows[1].input_tokens = 3
    /\ NewRows[1].output_tokens = 2
    /\ NewRows[1].total_tokens = 5

\* an event carries a usage object
CarriesUsage(data) == "usage" \in DOMAIN data /\ DOMAIN data.usage # {}

\* C28: if none of the events parsed from a response carries a usage object,
\* no record is written to the store for that response
C28_NoUsageNoRecord ==
    (/\ served.op = "process_usage_and_show_statistics"
     /\ \A i \in 1..Len(served.arg) : ~CarriesUsage(served.arg[i]))
    => token_usage = served.before

\* the last request served did ev, and how many times
Count(ev) == Cardinality({i \in DOMAIN served.trace : served.trace[i] = ev})

Did(ev) == Count(ev) > 0

ChatServed == served.op = "proxy_chat_completions"

\* C21: a chat completion cancelled by the client while it sleeps for the
\* admission delay ends with status 499, is never dispatched upstream and is
\* never recorded by record_request
C21_CancelledSleepAborts499 ==
    (ChatServed /\ served.net.cancel = "request_sleep" /\ Did("cancelled"))
    => /\ served.status_code = 499
       /\ ~Did("post")
       /\ ~Did("record_request")

\* what the request did after the dispatch, sleeps left out
AfterPost == SelectSeq(served.trace,
                       LAMBDA ev : ev \in {"parse", "process_usage", "check_token_limits",
                                           "record_request"})

\* C22: for every chat completion whose upstream body (status 200) is read to
\* the end, parse, usage recording, check_tokens and record_request happen in
\* this order and each exactly once, whatever check_tokens answers
C22_ParseUsageCheckRecord ==
    (ChatServed /\ Did("post") /\ served.net.status = 200 /\ served.net.cancel # "body")
    => AfterPost = <<"parse", "process_usage", "check_token_limits", "record_request">>

\* the chunks received before the cancellation hold a usage frame
ReceivedUsage ==
    LET events == parse_accumulated_sse_data(
                      Joined(SubSeq(served.net.chunks, 1, served.net.received)))
    IN  \E i \in 1..Len(events) : CarriesUsage(events[i])

\* C23: if the client cancels while the upstream body is streamed, the usage
\* frames already received are still recorded in the store
C23_UsageRecordedOnCancel ==
    (/\ ChatServed
     /\ served.net.cancel = "body"
     /\ Did("cancelled")
     /\ served.net.store_ok
     /\ ReceivedUsage)
    => Len(token_usage) = Len(served.before.store) + 1

\* C24: after the upstream body has been delivered in full, a failure (of the
\* parse, of the store, of the token check) is only logged: the response holds
\* the delivered chunks and nothing after them
C24_NothingAfterDeliveredBody ==
    (ChatServed /\ Did("parse")) => served.body = Joined(served.net.chunks)

\* an endpoint was served and the upstream answered outside 2xx
UpstreamFailed ==
    /\ served.op \in {"proxy_chat_completions", "list_models"}
    /\ Did("post") \/ Did("get")
    /\ served.net.status \notin 200..299

\* C25: for both endpoints, when the upstream answers with a non-2xx status s,
\* the downstream response has status s and its body carries the upstream body
C25_UpstreamErrorSurfaced ==
    UpstreamFailed =>
        /\ served.status_code = served.net.status
        /\ \E i \in DOMAIN served.body : served.body[i] = UpstreamErrorText

\* C26: a chat completion rejected at admission (400 from normalization, 429
\* from check_request) is rejected before a session token is acquired and
\* before any dispatch, and is recorded neither by record_request nor in the
\* usage store
C26_RejectedBeforeAnyEffect ==
    (ChatServed /\ served.status_code \in {400, 429})
    => /\ ~Did("get_cached_copilot_token")
       /\ ~Did("post")
       /\ ~Did("record_request")
       /\ ~Did("process_usage")
       /\ ThePool = served.before.pool
       /\ recorded = served.before.recorded
       /\ token_usage = served.before.store

\* a request was rejected with 429 by the admission check after an earlier
\* request had been recorded
C26_Witness ==
    /\ ChatServed
    /\ served.status_code = 429
    /\ served.trace = <<"preprocess_request_body", "check_request_limit">>
    /\ Len(recorded) > 0

\* the texts of a list of messages with the role of the message each is in:
\* one for a string content, one per element of an array, in order
RECURSIVE Elements(_)
Elements(messages) ==
    IF messages = <<>> THEN <<>>
    ELSE LET message == Head(messages)
         IN  (IF message.content.kind = "str"
              THEN <<[role |-> message.role, text |-> message.content.text]>>
              ELSE [i \in 1..Len(message.content.items) |->
                       [role |-> message.role, text |-> message.content.items[i].text]])
             \o Elements(Tail(messages))

\* a body with messages, all of which have a content
NormalizedArrays ==
    /\ served.op = "preprocess_request_body"
    /\ served.arg.messages # <<>>
    /\ \A i \in 1..Len(served.arg.messages) : served.arg.messages[i].content.kind # "missing"

NonTextElement ==
    \E i \in 1..Len(served.arg.messages) :
        /\ served.arg.messages[i].content.kind = "list"
        /\ \E j \in 1..Len(served.arg.messages[i].content.items) :
               served.arg.messages[i].content.items[j].type # "text"

\* the messages of the normalized body are the elements of the request, in
\* order, each sanitized, under the roles given
ElementsKept(roles) ==
    /\ served.ret.ok
    /\ Len(served.ret.body.messages) = Len(roles)
    /\ \A k \in 1..Len(roles) :
           /\ served.ret.body.messages[k].role = roles[k]
           /\ served.ret.body.messages[k].content =
                  [kind |-> "str", text |-> sanitize(Elements(served.arg.messages)[k].text)]

ParentRoles ==
    [k \in 1..Len(Elements(served.arg.messages)) |-> Elements(served.arg.messages)[k].role]

\* the role of the parent after the rewrite of system for o1 models
RewrittenRoles ==
    [k \in 1..Len(ParentRoles) |->
        IF startswith(served.arg.model, <<"o", "1">>) /\ ParentRoles[k] = "system"
        THEN "user" ELSE ParentRoles[k]]

\* C32, as stated: a content array with an element that is not text fails
\* with 400; otherwise every text element becomes one message with the role
\* of its parent message, in the order of the messages and of the elements
C32_ArrayElementsKeepParentRole ==
    NormalizedArrays =>
        IF NonTextElement
        THEN ~served.ret.ok /\ served.ret.status_code = 400
        ELSE ElementsKept(ParentRoles)

\* C32, corrected: the role of each message is the role of its parent message
\* except that for a model whose name starts with o1 a parent role system
\* becomes user
C32_ArrayElementsKeepRewrittenRole ==
    NormalizedArrays =>
        IF NonTextElement
        THEN ~served.ret.ok /\ served.ret.status_code = 400
        ELSE ElementsKept(RewrittenRoles)

\* a system message with an array of two texts after a user message with a
\* string became three messages, for a model that is not o1
C32_Witness ==
    /\ NormalizedArrays
    /\ served.arg.model = <<"gpt-4", "o", "1">>
    /\ Len(served.arg.messages) = 2
    /\ served.arg.messages[1].role = "user"
    /\ served.arg.messages[1].content.kind = "str"
    /\ served.arg.messages[2].role = "system"
    /\ served.arg.messages[2].content.kind = "list"
    /\ Len(served.arg.messages[2].content.items) = 2
    /\ ElementsKept(<<"user", "system", "system">>)

\* the entries (model, window, timestamp) of the request counters
EntriesOf(counters) ==
    UNION { UNION { { <<m, w, ts>> : ts \in DOMAIN counters[m][w] }
                    : w \in DOMAIN counters[m] }
            : m \in DOMAIN counters }

\* C34: check_request changes nothing but by pruning: an entry of the model
\* whose timestamp is >= now - 2w (so every entry >= now - w) is kept with
\* its count, no entry is added or changed, and the rules, next_allowed_at
\* and the counters of every other model are unchanged, whether the call
\* returns or raises
C34_CheckRequestOnlyPrunes ==
    [][result'.op = "check_request" =>
          /\ rules' = rules
          /\ next_allowed_request' = next_allowed_request
          /\ \A e \in EntriesOf(request_counters') :
                 /\ e \in EntriesOf(request_counters)
                 /\ request_counters'[e[1]][e[2]][e[3]] = request_counters[e[1]][e[2]][e[3]]
          /\ \A e \in EntriesOf(request_counters) :
                 (e[1] # result'.model \/ e[3] >= clock - Minutes(2 * e[2]))
                 => e \in EntriesOf(request_counters')
      ]_vars

\* after a check_request, the counter of the model holds an entry that has
\* left its window but not twice its window, and another model has entries
C34_Witness ==
    /\ result.op = "check_request"
    /\ \E e \in EntriesOf(request_counters) :
           /\ e[1] = result.model
           /\ e[3] < clock - Minutes(e[2])
           /\ e[3] >= clock - Minutes(2 * e[2])
    /\ \E e \in EntriesOf(request_counters) : e[1] # result.model

\* the requests a rule of the window counts at now in the given counters
CountIn(counters, model, window_minutes, now) ==
    IF model \in DOMAIN counters /\ window_minutes \in DOMAIN counters[model]
    THEN LET d == counters[model][window_minutes]
         IN  SumOver(d, {ts \in DOMAIN d : ts >= now - Minutes(window_minutes)})
    ELSE 0

\* C35: one record_request call increases the request count observed by each
\* request rule of the model by exactly 1, also when two rules have the same
\* window_minutes
C35_RecordCountsOncePerRule ==
    [][result'.op = "record_request" =>
          \A rule \in RulesOf(result'.model) :
              rule.requests # 0 =>
                  CountIn(request_counters', result'.model, rule.window_minutes, clock)
                  = CountIn(request_counters, result'.model, rule.window_minutes, clock) + 1
      ]_vars

\* C39: a check_tokens call that raises RateLimitExceeded leaves the limiter as
\* it was before the call; in particular next_allowed_request is not modified,
\* also when a violated DELAY rule stands before the violated ERROR rule.
C39_RaiseLeavesNextAllowed ==
    [][result'.op = "check_tokens" /\ result'.kind = "raise" =>
          /\ next_allowed_request' = next_allowed_request
          /\ request_counters' = request_counters
          /\ token_usage' = token_usage
          /\ rules' = rules
      ]_vars

\* C40: the request-rate delay is sufficient. When check_request(model, now)
\* returns a delay d for violated DELAY request rules (not the carry-over of
\* next_allowed_request) and nothing is recorded in between, the call
\* check_request(model, now + d) finds every request rule of the model within
\* its limit and returns none.
DelayFromRequestRules ==
    /\ result.op = "check_request"
    /\ result.kind = "delay"
    /\ ~(result.model \in DOMAIN next_allowed_request
            /\ clock < next_allowed_request[result.model])

WithinAt(model, current_time) ==
    \A i \in 1..Len(rules[model]) :
        _check_request_limits(request_counters, model, rules[model][i],
                              current_time).within

C40_RequestDelaySufficient ==
    DelayFromRequestRules =>
        /\ check_request_limit(rules, request_counters, next_allowed_request,
                               result.model, clock + result.delay).ret.kind = "none"
        /\ WithinAt(result.model, clock + result.delay)

\* C36: in every reachable state, the token cached under an index i was
\* obtained by exchanging credential i; after a successful call with failover
\* the returned token is cached under the new active index, not the failed one.
C36_CacheKeyIsSourceCredential ==
    \A i \in DOMAIN CACHED_TOKENS : CACHED_TOKENS[i].source = i

\* C37: two get_cached_copilot_token calls run concurrently while the active
\* credential fails.  No interleaving makes the pool skip a working
\* credential: when both calls have ended, the active index is the lowest
\* index after the failed one whose exchange succeeds, and no call has failed
\* ("All available tokens have failed") while a credential after the failed
\* one succeeds.
Working == {i \in 1..(NumTokens - 1) : upstream[i] = "ok"}

LowestWorking == CHOOSE i \in Working : \A j \in Working : i <= j

C37_NoWorkingCredentialSkipped ==
    (upstream[0] # "ok" /\ Working # {}) =>
        /\ \A t \in Callers : ~(Ended(t) /\ calls[t].signal = "raise")
        /\ (\A t \in Callers : Ended(t)) => active_token_index = LowestWorking

\* C38: every get_cached_copilot_token call terminates, every exchange being
\* answered: while the call runs the active index only increases, the call
\* makes a bounded number of exchanges, and it ends with a token or with an
\* error, also when every credential fails.
C38_EveryCallTerminates ==
    /\ [](calls[1].exchanges <= MaxExchanges)
    /\ [][InCall(1) /\ InCall(1)' => active_token_index' >= active_token_index]_vars
    /\ (InCall(1) ~> Ended(1))

C38_Witness ==
    /\ Ended(1)
    /\ calls[1].signal = "raise"
    /\ calls[1].exchanges >= NumTokens
    /\ DOMAIN TOKEN_ERRORS = 0..(NumTokens - 1)

\* C33: loading the rate-limit configuration yields an empty rule set whenever
\* rate_limits.json is absent, is not valid JSON, or contains at least one
\* rule that fails validation; the configuration is never partially loaded.
SomeRuleFails(file) ==
    \E i \in 1..Len(file.data) :
        \E k \in 1..Len(file.data[i].limits) : ~rule_accepted(file.data[i].limits[k])

C33_LoadAllOrNothing ==
    served.op = "_load_rate_limits" =>
        ((~served.arg.exists \/ ~served.arg.json \/ SomeRuleFails(served.arg))
             => \A model \in DOMAIN served.rate_limits :
                    served.rate_limits[model] = <<>>)

\* C31: for an o1 model with stream = true, the downstream stream consists of
\* exactly one data frame per upstream choice, in the upstream order, each
\* carrying that single choice with message rewritten to delta and index and
\* finish_reason preserved, followed by exactly one final data: [DONE] frame
\* and nothing after it.
O1Streamed ==
    /\ served.op = "proxy_chat_completions"
    /\ startswith(served.arg.model, <<"o", "1">>)
    /\ "stream" \in DOMAIN served.arg
    /\ served.arg.stream
    /\ served.status_code = 200
    /\ served.net.status = 200

UpstreamChoices == get(served.net.data, "choices", <<>>)

\* the choice with its message, if it has one, as a delta
Rewritten(choice) ==
    [key \in {IF k = "message" THEN "delta" ELSE k : k \in DOMAIN choice} |->
        IF key = "delta" THEN [content |-> choice.message.content] ELSE choice[key]]

DataFrame(choice) ==
    <<"data: ",
      json_dumps([id |-> get(served.net.data, "id", ""),
                  created |-> get(served.net.data, "created", 0),
                  model |-> get(served.net.data, "model", ""),
                  choices |-> <<Rewritten(choice)>>]),
      LF, LF>>

C31_OneFramePerChoiceThenDone ==
    O1Streamed =>
        served.body =
            Joined([k \in 1..Len(UpstreamChoices) |-> DataFrame(UpstreamChoices[k])])
            \o <<"data: ", "[DONE]", LF, LF>>

====
